---- MODULE Spec2Model ----
(***************************************************************************)
(* Verification development for the ai-code-review repository.             *)
(*                                                                         *)
(* Part 1: the verification engine (verifyComments) and the fuzzy matcher  *)
(* (FuzzyCodeMatcher).                                                     *)
(*                                                                         *)
(* Text is modelled code unit by code unit: a JavaScript string is a       *)
(* sequence of strings, one per code unit, so that trimming, lower-casing, *)
(* normalising, splitting and searching are computed as the code computes  *)
(* them.  A code unit up to U+00FF is the one-character string; a higher   *)
(* one, and the grave accent U+0060, which a string of this language       *)
(* cannot hold, is written by its name, "\\u212a".  A relative path is a    *)
(* sequence of path segments.  Confidences and similarity scores are kept  *)
(* in hundredths (0.6 is 60), the scale on which fuzzball reports them.    *)
(***************************************************************************)
EXTENDS Integers, Sequences, FiniteSets, TLC

VARIABLES
    comments,      \* the ReviewComment[] argument of verifyComments
    opts,          \* the VerifyOptions argument
    fuzz,          \* the fuzzball library: best-of-three score per text pair
    pc,            \* position in verifyComments: "start", "load" (inside
                   \* loadFiles), "loop", "done", "threw"
    fileIdx,       \* 1-based position of the for..of loop of loadFiles
    idx,           \* 1-based position of the for..of loop over comments
    kept,          \* kept: references (input positions) of the kept comments
    dropped,       \* dropped: [comment |-> input position, reasons |-> ...]
    enhanced,      \* enhanced: the relocated copies (fuzzy mode)
    misplaced,     \* misplaced: the relocation suggestions (fuzzy mode)
    fileContents   \* FuzzyCodeMatcher.fileContents, in Map insertion order

VARIABLES
    parsed,             \* the ParsedDiff argument of chunkParsedDiff
    maxTokensPerChunk,  \* its budget argument (optional), then the parameter
    chunks,             \* chunks: the DiffChunk[] being built
    current,            \* current: the open chunk, or null
    fileIndex,          \* 1-based position of the loop over parsed.files
    hunkIndex,          \* i, the 0-based index of the loop over file.hunks
    chunkPc             \* position in chunkParsedDiff

VARIABLES
    diffSource,       \* the files, hunks and lines the diff text was made from
    diffText,         \* the diffText argument of analyzeUnifiedDiff
    parseDiffFiles,   \* what the parse-diff library returns for the text
    diffLines,        \* lines = diffText.split("\n")
    lineIndex,        \* 1-based position of the loop over lines
    diffFiles,        \* files: the file entries flushed so far
    currentPath,      \* currentPath, or null
    currentHunks,     \* currentHunks
    added,            \* added
    deleted,          \* deleted
    targetLineStart,  \* targetLineStart
    targetLine,       \* targetLine, the running target-line counter
    diffResult,       \* the ParsedDiff returned, once returned
    diffPc            \* position in analyzeUnifiedDiff

VARIABLES
    disk,                \* the file system: the files there are, in readdir order
    graphParsed,         \* parsed.files.map((f) => f.path): the changed files
    graphRepoDir,        \* the repoDir argument
    graphEarlier,        \* history: what the earlier calls returned, per call
    cpus,                \* os.cpus()?.length, or 0 when it is not known
    graphFiles,          \* files = await discoverSourceFiles(repoDir)
    concurrency,         \* concurrency
    index,               \* index, the file index the workers share
    workerPc,            \* where each worker is: "loop", "reading", "done"
    workerI,             \* each worker's const i
    nodes,               \* nodes, in insertion order
    edges,               \* edges
    definitions,         \* definitions, keyed by relative path
    fileMeta,            \* fileMeta, keyed by relative path
    pendingResolutions,  \* pendingResolutions (module level)
    fileExistsCache,     \* fileExistsCache (module level), keyed by path
    resolveIndex,        \* 1-based position of the loop over pendingResolutions
    candidateIndex,      \* 1-based position of the loop over candidates
    graphResult,         \* what buildCodeGraph returned, once returned
    graphPc,             \* position in buildCodeGraph
    claimLog,            \* history: <<worker, i>> for every i < files.length taken
    writeLog             \* history: <<worker, key>> for every write to the tables

VARIABLES
    queueClient,         \* which client owns the queue: "llm" or "rag"
    queueConcurrency,    \* the queue's concurrency option
    queueIntervalCap,    \* the queue's intervalCap option
    queuePaused,         \* the queue's isPaused
    queueWaiting,        \* the queue's waiting items, in the order they will run
    queueRunning,        \* the requests whose function runs (pending counts them)
    queueSettled,        \* the requests whose promise has settled
    queueIntervalCount,  \* how many requests started in the current interval
    queueNextId,         \* history: the number the next request gets
    queueResumed         \* history: resume() was called on the paused queue
                         \* since the last pause()

VARIABLES
    reviewChanged,     \* changedFiles = new Set(parsed.files.map((f) => f.path))
    reviewChunks,      \* chunks, as the file path of each
    reviewSmells,      \* smells = analyzeCodeSmells(parsed)
    reviewLlm,         \* whether llm is defined (rawLlmConfig was given)
    reviewDefs,        \* definitions, as verifyComments gets them
    reviewChunkIndex,  \* 1-based position of the loop over chunks
    allComments,       \* allComments
    prelimComments,    \* prelimComments
    refined,           \* refined
    finalComments,     \* finalComments = verification.kept
    reviewOutputPath,  \* whether args.outputPath is given
    reviewPc           \* position in reviewRepositoryDiff

verifyVars ==
    <<comments, opts, fuzz, pc, fileIdx, idx, kept, dropped, enhanced,
      misplaced, fileContents>>

chunkVars ==
    <<parsed, maxTokensPerChunk, chunks, current, fileIndex, hunkIndex,
      chunkPc>>

diffVars ==
    <<diffSource, diffText, parseDiffFiles, diffLines, lineIndex, diffFiles,
      currentPath, currentHunks, added, deleted, targetLineStart, targetLine,
      diffResult, diffPc>>

graphVars ==
    <<disk, graphParsed, graphRepoDir, graphEarlier, cpus, graphFiles, concurrency, index, workerPc, workerI, nodes,
      edges, definitions, fileMeta, pendingResolutions, fileExistsCache,
      resolveIndex, candidateIndex, graphResult, graphPc, claimLog, writeLog>>

queueVars ==
    <<queueClient, queueConcurrency, queueIntervalCap, queuePaused,
      queueWaiting, queueRunning, queueSettled, queueIntervalCount,
      queueNextId, queueResumed>>

reviewVars ==
    <<reviewChanged, reviewChunks, reviewSmells, reviewLlm, reviewDefs,
      reviewChunkIndex, allComments, prelimComments, refined, finalComments,
      reviewOutputPath, reviewPc>>

vars ==
    <<verifyVars, chunkVars, diffVars, graphVars, queueVars, reviewVars>>

\* no call of verifyComments is under way
VerifyIdle ==
    /\ comments = <<>>
    /\ opts = <<>>
    /\ fuzz = <<>>
    /\ pc = "idle"
    /\ fileIdx = 0
    /\ idx = 0
    /\ kept = <<>>
    /\ dropped = <<>>
    /\ enhanced = <<>>
    /\ misplaced = <<>>
    /\ fileContents = <<>>

\* no call of chunkParsedDiff is under way
ChunkIdle ==
    /\ parsed = <<>>
    /\ maxTokensPerChunk = <<>>
    /\ chunks = <<>>
    /\ current = <<>>
    /\ fileIndex = 0
    /\ hunkIndex = 0
    /\ chunkPc = "idle"

\* no call of analyzeUnifiedDiff is under way
DiffIdle ==
    /\ diffSource = <<>>
    /\ diffText = <<>>
    /\ parseDiffFiles = <<>>
    /\ diffLines = <<>>
    /\ lineIndex = 0
    /\ diffFiles = <<>>
    /\ currentPath = <<>>
    /\ currentHunks = <<>>
    /\ added = 0
    /\ deleted = 0
    /\ targetLineStart = 0
    /\ targetLine = 0
    /\ diffResult = <<>>
    /\ diffPc = "idle"

\* no call of buildCodeGraph is under way
GraphIdle ==
    /\ disk = <<>>
    /\ graphParsed = {}
    /\ graphRepoDir = <<>>
    /\ graphEarlier = <<>>
    /\ cpus = 0
    /\ graphFiles = <<>>
    /\ concurrency = 0
    /\ index = 0
    /\ workerPc = <<>>
    /\ workerI = <<>>
    /\ nodes = <<>>
    /\ edges = <<>>
    /\ definitions = <<>>
    /\ fileMeta = <<>>
    /\ pendingResolutions = <<>>
    /\ fileExistsCache = <<>>
    /\ resolveIndex = 0
    /\ candidateIndex = 0
    /\ graphResult = <<>>
    /\ graphPc = "idle"
    /\ claimLog = <<>>
    /\ writeLog = <<>>

\* no client has been constructed
QueueIdle ==
    /\ queueClient = ""
    /\ queueConcurrency = 0
    /\ queueIntervalCap = 0
    /\ queuePaused = FALSE
    /\ queueWaiting = <<>>
    /\ queueRunning = {}
    /\ queueSettled = {}
    /\ queueIntervalCount = 0
    /\ queueNextId = 0
    /\ queueResumed = FALSE

\* no call of reviewRepositoryDiff is under way
ReviewIdle ==
    /\ reviewChanged = {}
    /\ reviewChunks = <<>>
    /\ reviewSmells = <<>>
    /\ reviewLlm = FALSE
    /\ reviewDefs = <<>>
    /\ reviewChunkIndex = 0
    /\ allComments = <<>>
    /\ prelimComments = <<>>
    /\ refined = <<>>
    /\ finalComments = <<>>
    /\ reviewOutputPath = FALSE
    /\ reviewPc = "idle"

\* the state outside a call of verifyComments
outsideVerify ==
    <<chunkVars, diffVars, graphVars, queueVars, reviewVars>>

OutsideVerifyIdle ==
    ChunkIdle /\ DiffIdle /\ GraphIdle /\ QueueIdle /\ ReviewIdle

\* the state outside a call of chunkParsedDiff
outsideChunk ==
    <<verifyVars, diffVars, graphVars, queueVars, reviewVars>>

OutsideChunkIdle ==
    VerifyIdle /\ DiffIdle /\ GraphIdle /\ QueueIdle /\ ReviewIdle

\* the state outside a call of analyzeUnifiedDiff
outsideDiff ==
    <<verifyVars, chunkVars, graphVars, queueVars, reviewVars>>

OutsideDiffIdle ==
    VerifyIdle /\ ChunkIdle /\ GraphIdle /\ QueueIdle /\ ReviewIdle

\* the state outside a call of buildCodeGraph
outsideGraph ==
    <<verifyVars, chunkVars, diffVars, queueVars, reviewVars>>

OutsideGraphIdle ==
    VerifyIdle /\ ChunkIdle /\ DiffIdle /\ QueueIdle /\ ReviewIdle

\* the state outside the queue of a client
outsideQueue ==
    <<verifyVars, chunkVars, diffVars, graphVars, reviewVars>>

OutsideQueueIdle ==
    VerifyIdle /\ ChunkIdle /\ DiffIdle /\ GraphIdle /\ ReviewIdle

\* the state outside a call of reviewRepositoryDiff
outsideReview ==
    <<verifyVars, chunkVars, diffVars, graphVars, queueVars>>

OutsideReviewIdle ==
    VerifyIdle /\ ChunkIdle /\ DiffIdle /\ GraphIdle /\ QueueIdle

----------------------------------------------------------------------------
(* Characters and generic string helpers                                   *)

Lower ==
    <<"a", "b", "c", "d", "e", "f", "g", "h", "i", "j", "k", "l", "m", "n", "o", "p", "q", "r", "s", "t", "u", "v", "w", "x", "y", "z">>

Upper ==
    <<"A", "B", "C", "D", "E", "F", "G", "H", "I", "J", "K", "L", "M", "N", "O", "P", "Q", "R", "S", "T", "U", "V", "W", "X", "Y", "Z">>

Digits ==
    <<"0", "1", "2", "3", "4", "5", "6", "7", "8", "9">>

Range(s) ==
    {s[k] : k \in DOMAIN s}

\* \s of a JavaScript regular expression, which are also the characters
\* trim() strips: tab, line feed, vertical tab, form feed, carriage return,
\* space, U+00A0, and the space characters and line terminators above U+00FF
SpaceChars ==
    {"\t", "\n", "", "\f", "\r", " ", " ",
     "\\u1680", "\\u2000", "\\u2001", "\\u2002", "\\u2003", "\\u2004",
     "\\u2005", "\\u2006", "\\u2007", "\\u2008", "\\u2009", "\\u200a",
     "\\u2028", "\\u2029", "\\u202f", "\\u205f", "\\u3000", "\\ufeff"}

IsSpace(ch) ==
    ch \in SpaceChars

\* [a-z0-9]
LowerAlnumChars ==
    Range(Lower) \cup Range(Digits)

IsLowerAlnum(ch) ==
    ch \in LowerAlnumChars

\* [A-Za-z0-9_]
WordChars ==
    Range(Lower) \cup Range(Upper) \cup Range(Digits) \cup {"_"}

IsWordChar(ch) ==
    ch \in WordChars

\* the capital letters of U+00C0..U+00DE and their small letters
UpperLatin1 ==
    <<"À", "Á", "Â", "Ã", "Ä", "Å", "Æ", "Ç", "È", "É", "Ê", "Ë", "Ì", "Í", "Î", "Ï", "Ð", "Ñ", "Ò", "Ó", "Ô", "Õ", "Ö", "Ø", "Ù", "Ú", "Û", "Ü", "Ý", "Þ">>

LowerLatin1 ==
    <<"à", "á", "â", "ã", "ä", "å", "æ", "ç", "è", "é", "ê", "ë", "ì", "í", "î", "ï", "ð", "ñ", "ò", "ó", "ô", "õ", "ö", "ø", "ù", "ú", "û", "ü", "ý", "þ">>

\* The code units that toLowerCase changes into one other code unit, each
\* followed by its lower-case form (the simple lower-case mappings of the
\* Unicode character database, version 17.0).  U+0130 and U+03A3 are dealt
\* with apart.
LowerPairList ==
    <<"A", "a", "B", "b", "C", "c", "D", "d", "E", "e", "F", "f", "G", "g",
     "H", "h", "I", "i", "J", "j", "K", "k", "L", "l", "M", "m", "N", "n",
     "O", "o", "P", "p", "Q", "q", "R", "r", "S", "s", "T", "t", "U", "u",
     "V", "v", "W", "w", "X", "x", "Y", "y", "Z", "z", "À", "à", "Á", "á",
     "Â", "â", "Ã", "ã", "Ä", "ä", "Å", "å", "Æ", "æ", "Ç", "ç", "È", "è",
     "É", "é", "Ê", "ê", "Ë", "ë", "Ì", "ì", "Í", "í", "Î", "î", "Ï", "ï",
     "Ð", "ð", "Ñ", "ñ", "Ò", "ò", "Ó", "ó", "Ô", "ô", "Õ", "õ", "Ö", "ö",
     "Ø", "ø", "Ù", "ù", "Ú", "ú", "Û", "û", "Ü", "ü", "Ý", "ý", "Þ", "þ",
     "\\u0100", "\\u0101", "\\u0102", "\\u0103", "\\u0104", "\\u0105",
     "\\u0106", "\\u0107", "\\u0108", "\\u0109", "\\u010a", "\\u010b",
     "\\u010c", "\\u010d", "\\u010e", "\\u010f", "\\u0110", "\\u0111",
     "\\u0112", "\\u0113", "\\u0114", "\\u0115", "\\u0116", "\\u0117",
     "\\u0118", "\\u0119", "\\u011a", "\\u011b", "\\u011c", "\\u011d",
     "\\u011e", "\\u011f", "\\u0120", "\\u0121", "\\u0122", "\\u0123",
     "\\u0124", "\\u0125", "\\u0126", "\\u0127", "\\u0128", "\\u0129",
     "\\u012a", "\\u012b", "\\u012c", "\\u012d", "\\u012e", "\\u012f",
     "\\u0132", "\\u0133", "\\u0134", "\\u0135", "\\u0136", "\\u0137",
     "\\u0139", "\\u013a", "\\u013b", "\\u013c", "\\u013d", "\\u013e",
     "\\u013f", "\\u0140", "\\u0141", "\\u0142", "\\u0143", "\\u0144",
     "\\u0145", "\\u0146", "\\u0147", "\\u0148", "\\u014a", "\\u014b",
     "\\u014c", "\\u014d", "\\u014e", "\\u014f", "\\u0150", "\\u0151",
     "\\u0152", "\\u0153", "\\u0154", "\\u0155", "\\u0156", "\\u0157",
     "\\u0158", "\\u0159", "\\u015a", "\\u015b", "\\u015c", "\\u015d",
     "\\u015e", "\\u015f", "\\u0160", "\\u0161", "\\u0162", "\\u0163",
     "\\u0164", "\\u0165", "\\u0166", "\\u0167", "\\u0168", "\\u0169",
     "\\u016a", "\\u016b", "\\u016c", "\\u016d", "\\u016e", "\\u016f",
     "\\u0170", "\\u0171", "\\u0172", "\\u0173", "\\u0174", "\\u0175",
     "\\u0176", "\\u0177", "\\u0178", "ÿ", "\\u0179", "\\u017a",
     "\\u017b", "\\u017c", "\\u017d", "\\u017e", "\\u0181", "\\u0253",
     "\\u0182", "\\u0183", "\\u0184", "\\u0185", "\\u0186", "\\u0254",
     "\\u0187", "\\u0188", "\\u0189", "\\u0256", "\\u018a", "\\u0257",
     "\\u018b", "\\u018c", "\\u018e", "\\u01dd", "\\u018f", "\\u0259",
     "\\u0190", "\\u025b", "\\u0191", "\\u0192", "\\u0193", "\\u0260",
     "\\u0194", "\\u0263", "\\u0196", "\\u0269", "\\u0197", "\\u0268",
     "\\u0198", "\\u0199", "\\u019c", "\\u026f", "\\u019d", "\\u0272",
     "\\u019f", "\\u0275", "\\u01a0", "\\u01a1", "\\u01a2", "\\u01a3",
     "\\u01a4", "\\u01a5", "\\u01a6", "\\u0280", "\\u01a7", "\\u01a8",
     "\\u01a9", "\\u0283", "\\u01ac", "\\u01ad", "\\u01ae", "\\u0288",
     "\\u01af", "\\u01b0", "\\u01b1", "\\u028a", "\\u01b2", "\\u028b",
     "\\u01b3", "\\u01b4", "\\u01b5", "\\u01b6", "\\u01b7", "\\u0292",
     "\\u01b8", "\\u01b9", "\\u01bc", "\\u01bd", "\\u01c4", "\\u01c6",
     "\\u01c5", "\\u01c6", "\\u01c7", "\\u01c9", "\\u01c8", "\\u01c9",
     "\\u01ca", "\\u01cc", "\\u01cb", "\\u01cc", "\\u01cd", "\\u01ce",
     "\\u01cf", "\\u01d0", "\\u01d1", "\\u01d2", "\\u01d3", "\\u01d4",
     "\\u01d5", "\\u01d6", "\\u01d7", "\\u01d8", "\\u01d9", "\\u01da",
     "\\u01db", "\\u01dc", "\\u01de", "\\u01df", "\\u01e0", "\\u01e1",
     "\\u01e2", "\\u01e3", "\\u01e4", "\\u01e5", "\\u01e6", "\\u01e7",
     "\\u01e8", "\\u01e9", "\\u01ea", "\\u01eb", "\\u01ec", "\\u01ed",
     "\\u01ee", "\\u01ef", "\\u01f1", "\\u01f3", "\\u01f2", "\\u01f3",
     "\\u01f4", "\\u01f5", "\\u01f6", "\\u0195", "\\u01f7", "\\u01bf",
     "\\u01f8", "\\u01f9", "\\u01fa", "\\u01fb", "\\u01fc", "\\u01fd",
     "\\u01fe", "\\u01ff", "\\u0200", "\\u0201", "\\u0202", "\\u0203",
     "\\u0204", "\\u0205", "\\u0206", "\\u0207", "\\u0208", "\\u0209",
     "\\u020a", "\\u020b", "\\u020c", "\\u020d", "\\u020e", "\\u020f",
     "\\u0210", "\\u0211", "\\u0212", "\\u0213", "\\u0214", "\\u0215",
     "\\u0216", "\\u0217", "\\u0218", "\\u0219", "\\u021a", "\\u021b",
     "\\u021c", "\\u021d", "\\u021e", "\\u021f", "\\u0220", "\\u019e",
     "\\u0222", "\\u0223", "\\u0224", "\\u0225", "\\u0226", "\\u0227",
     "\\u0228", "\\u0229", "\\u022a", "\\u022b", "\\u022c", "\\u022d",
     "\\u022e", "\\u022f", "\\u0230", "\\u0231", "\\u0232", "\\u0233",
     "\\u023a", "\\u2c65", "\\u023b", "\\u023c", "\\u023d", "\\u019a",
     "\\u023e", "\\u2c66", "\\u0241", "\\u0242", "\\u0243", "\\u0180",
     "\\u0244", "\\u0289", "\\u0245", "\\u028c", "\\u0246", "\\u0247",
     "\\u0248", "\\u0249", "\\u024a", "\\u024b", "\\u024c", "\\u024d",
     "\\u024e", "\\u024f", "\\u0370", "\\u0371", "\\u0372", "\\u0373",
     "\\u0376", "\\u0377", "\\u037f", "\\u03f3", "\\u0386", "\\u03ac",
     "\\u0388", "\\u03ad", "\\u0389", "\\u03ae", "\\u038a", "\\u03af",
     "\\u038c", "\\u03cc", "\\u038e", "\\u03cd", "\\u038f", "\\u03ce",
     "\\u0391", "\\u03b1", "\\u0392", "\\u03b2", "\\u0393", "\\u03b3",
     "\\u0394", "\\u03b4", "\\u0395", "\\u03b5", "\\u0396", "\\u03b6",
     "\\u0397", "\\u03b7", "\\u0398", "\\u03b8", "\\u0399", "\\u03b9",
     "\\u039a", "\\u03ba", "\\u039b", "\\u03bb", "\\u039c", "\\u03bc",
     "\\u039d", "\\u03bd", "\\u039e", "\\u03be", "\\u039f", "\\u03bf",
     "\\u03a0", "\\u03c0", "\\u03a1", "\\u03c1", "\\u03a4", "\\u03c4",
     "\\u03a5", "\\u03c5", "\\u03a6", "\\u03c6", "\\u03a7", "\\u03c7",
     "\\u03a8", "\\u03c8", "\\u03a9", "\\u03c9", "\\u03aa", "\\u03ca",
     "\\u03ab", "\\u03cb", "\\u03cf", "\\u03d7", "\\u03d8", "\\u03d9",
     "\\u03da", "\\u03db", "\\u03dc", "\\u03dd", "\\u03de", "\\u03df",
     "\\u03e0", "\\u03e1", "\\u03e2", "\\u03e3", "\\u03e4", "\\u03e5",
     "\\u03e6", "\\u03e7", "\\u03e8", "\\u03e9", "\\u03ea", "\\u03eb",
     "\\u03ec", "\\u03ed", "\\u03ee", "\\u03ef", "\\u03f4", "\\u03b8",
     "\\u03f7", "\\u03f8", "\\u03f9", "\\u03f2", "\\u03fa", "\\u03fb",
     "\\u03fd", "\\u037b", "\\u03fe", "\\u037c", "\\u03ff", "\\u037d",
     "\\u0400", "\\u0450", "\\u0401", "\\u0451", "\\u0402", "\\u0452",
     "\\u0403", "\\u0453", "\\u0404", "\\u0454", "\\u0405", "\\u0455",
     "\\u0406", "\\u0456", "\\u0407", "\\u0457", "\\u0408", "\\u0458",
     "\\u0409", "\\u0459", "\\u040a", "\\u045a", "\\u040b", "\\u045b",
     "\\u040c", "\\u045c", "\\u040d", "\\u045d", "\\u040e", "\\u045e",
     "\\u040f", "\\u045f", "\\u0410", "\\u0430", "\\u0411", "\\u0431",
     "\\u0412", "\\u0432", "\\u0413", "\\u0433", "\\u0414", "\\u0434",
     "\\u0415", "\\u0435", "\\u0416", "\\u0436", "\\u0417", "\\u0437",
     "\\u0418", "\\u0438", "\\u0419", "\\u0439", "\\u041a", "\\u043a",
     "\\u041b", "\\u043b", "\\u041c", "\\u043c", "\\u041d", "\\u043d",
     "\\u041e", "\\u043e", "\\u041f", "\\u043f", "\\u0420", "\\u0440",
     "\\u0421", "\\u0441", "\\u0422", "\\u0442", "\\u0423", "\\u0443",
     "\\u0424", "\\u0444", "\\u0425", "\\u0445", "\\u0426", "\\u0446",
     "\\u0427", "\\u0447", "\\u0428", "\\u0448", "\\u0429", "\\u0449",
     "\\u042a", "\\u044a", "\\u042b", "\\u044b", "\\u042c", "\\u044c",
     "\\u042d", "\\u044d", "\\u042e", "\\u044e", "\\u042f", "\\u044f",
     "\\u0460", "\\u0461", "\\u0462", "\\u0463", "\\u0464", "\\u0465",
     "\\u0466", "\\u0467", "\\u0468", "\\u0469", "\\u046a", "\\u046b",
     "\\u046c", "\\u046d", "\\u046e", "\\u046f", "\\u0470", "\\u0471",
     "\\u0472", "\\u0473", "\\u0474", "\\u0475", "\\u0476", "\\u0477",
     "\\u0478", "\\u0479", "\\u047a", "\\u047b", "\\u047c", "\\u047d",
     "\\u047e", "\\u047f", "\\u0480", "\\u0481", "\\u048a", "\\u048b",
     "\\u048c", "\\u048d", "\\u048e", "\\u048f", "\\u0490", "\\u0491",
     "\\u0492", "\\u0493", "\\u0494", "\\u0495", "\\u0496", "\\u0497",
     "\\u0498", "\\u0499", "\\u049a", "\\u049b", "\\u049c", "\\u049d",
     "\\u049e", "\\u049f", "\\u04a0", "\\u04a1", "\\u04a2", "\\u04a3",
     "\\u04a4", "\\u04a5", "\\u04a6", "\\u04a7", "\\u04a8", "\\u04a9",
     "\\u04aa", "\\u04ab", "\\u04ac", "\\u04ad", "\\u04ae", "\\u04af",
     "\\u04b0", "\\u04b1", "\\u04b2", "\\u04b3", "\\u04b4", "\\u04b5",
     "\\u04b6", "\\u04b7", "\\u04b8", "\\u04b9", "\\u04ba", "\\u04bb",
     "\\u04bc", "\\u04bd", "\\u04be", "\\u04bf", "\\u04c0", "\\u04cf",
     "\\u04c1", "\\u04c2", "\\u04c3", "\\u04c4", "\\u04c5", "\\u04c6",
     "\\u04c7", "\\u04c8", "\\u04c9", "\\u04ca", "\\u04cb", "\\u04cc",
     "\\u04cd", "\\u04ce", "\\u04d0", "\\u04d1", "\\u04d2", "\\u04d3",
     "\\u04d4", "\\u04d5", "\\u04d6", "\\u04d7", "\\u04d8", "\\u04d9",
     "\\u04da", "\\u04db", "\\u04dc", "\\u04dd", "\\u04de", "\\u04df",
     "\\u04e0", "\\u04e1", "\\u04e2", "\\u04e3", "\\u04e4", "\\u04e5",
     "\\u04e6", "\\u04e7", "\\u04e8", "\\u04e9", "\\u04ea", "\\u04eb",
     "\\u04ec", "\\u04ed", "\\u04ee", "\\u04ef", "\\u04f0", "\\u04f1",
     "\\u04f2", "\\u04f3", "\\u04f4", "\\u04f5", "\\u04f6", "\\u04f7",
     "\\u04f8", "\\u04f9", "\\u04fa", "\\u04fb", "\\u04fc", "\\u04fd",
     "\\u04fe", "\\u04ff", "\\u0500", "\\u0501", "\\u0502", "\\u0503",
     "\\u0504", "\\u0505", "\\u0506", "\\u0507", "\\u0508", "\\u0509",
     "\\u050a", "\\u050b", "\\u050c", "\\u050d", "\\u050e", "\\u050f",
     "\\u0510", "\\u0511", "\\u0512", "\\u0513", "\\u0514", "\\u0515",
     "\\u0516", "\\u0517", "\\u0518", "\\u0519", "\\u051a", "\\u051b",
     "\\u051c", "\\u051d", "\\u051e", "\\u051f", "\\u0520", "\\u0521",
     "\\u0522", "\\u0523", "\\u0524", "\\u0525", "\\u0526", "\\u0527",
     "\\u0528", "\\u0529", "\\u052a", "\\u052b", "\\u052c", "\\u052d",
     "\\u052e", "\\u052f", "\\u0531", "\\u0561", "\\u0532", "\\u0562",
     "\\u0533", "\\u0563", "\\u0534", "\\u0564", "\\u0535", "\\u0565",
     "\\u0536", "\\u0566", "\\u0537", "\\u0567", "\\u0538", "\\u0568",
     "\\u0539", "\\u0569", "\\u053a", "\\u056a", "\\u053b", "\\u056b",
     "\\u053c", "\\u056c", "\\u053d", "\\u056d", "\\u053e", "\\u056e",
     "\\u053f", "\\u056f", "\\u0540", "\\u0570", "\\u0541", "\\u0571",
     "\\u0542", "\\u0572", "\\u0543", "\\u0573", "\\u0544", "\\u0574",
     "\\u0545", "\\u0575", "\\u0546", "\\u0576", "\\u0547", "\\u0577",
     "\\u0548", "\\u0578", "\\u0549", "\\u0579", "\\u054a", "\\u057a",
     "\\u054b", "\\u057b", "\\u054c", "\\u057c", "\\u054d", "\\u057d",
     "\\u054e", "\\u057e", "\\u054f", "\\u057f", "\\u0550", "\\u0580",
     "\\u0551", "\\u0581", "\\u0552", "\\u0582", "\\u0553", "\\u0583",
     "\\u0554", "\\u0584", "\\u0555", "\\u0585", "\\u0556", "\\u0586",
     "\\u10a0", "\\u2d00", "\\u10a1", "\\u2d01", "\\u10a2", "\\u2d02",
     "\\u10a3", "\\u2d03", "\\u10a4", "\\u2d04", "\\u10a5", "\\u2d05",
     "\\u10a6", "\\u2d06", "\\u10a7", "\\u2d07", "\\u10a8", "\\u2d08",
     "\\u10a9", "\\u2d09", "\\u10aa", "\\u2d0a", "\\u10ab", "\\u2d0b",
     "\\u10ac", "\\u2d0c", "\\u10ad", "\\u2d0d", "\\u10ae", "\\u2d0e",
     "\\u10af", "\\u2d0f", "\\u10b0", "\\u2d10", "\\u10b1", "\\u2d11",
     "\\u10b2", "\\u2d12", "\\u10b3", "\\u2d13", "\\u10b4", "\\u2d14",
     "\\u10b5", "\\u2d15", "\\u10b6", "\\u2d16", "\\u10b7", "\\u2d17",
     "\\u10b8", "\\u2d18", "\\u10b9", "\\u2d19", "\\u10ba", "\\u2d1a",
     "\\u10bb", "\\u2d1b", "\\u10bc", "\\u2d1c", "\\u10bd", "\\u2d1d",
     "\\u10be", "\\u2d1e", "\\u10bf", "\\u2d1f", "\\u10c0", "\\u2d20",
     "\\u10c1", "\\u2d21", "\\u10c2", "\\u2d22", "\\u10c3", "\\u2d23",
     "\\u10c4", "\\u2d24", "\\u10c5", "\\u2d25", "\\u10c7", "\\u2d27",
     "\\u10cd", "\\u2d2d", "\\u13a0", "\\uab70", "\\u13a1", "\\uab71",
     "\\u13a2", "\\uab72", "\\u13a3", "\\uab73", "\\u13a4", "\\uab74",
     "\\u13a5", "\\uab75", "\\u13a6", "\\uab76", "\\u13a7", "\\uab77",
     "\\u13a8", "\\uab78", "\\u13a9", "\\uab79", "\\u13aa", "\\uab7a",
     "\\u13ab", "\\uab7b", "\\u13ac", "\\uab7c", "\\u13ad", "\\uab7d",
     "\\u13ae", "\\uab7e", "\\u13af", "\\uab7f", "\\u13b0", "\\uab80",
     "\\u13b1", "\\uab81", "\\u13b2", "\\uab82", "\\u13b3", "\\uab83",
     "\\u13b4", "\\uab84", "\\u13b5", "\\uab85", "\\u13b6", "\\uab86",
     "\\u13b7", "\\uab87", "\\u13b8", "\\uab88", "\\u13b9", "\\uab89",
     "\\u13ba", "\\uab8a", "\\u13bb", "\\uab8b", "\\u13bc", "\\uab8c",
     "\\u13bd", "\\uab8d", "\\u13be", "\\uab8e", "\\u13bf", "\\uab8f",
     "\\u13c0", "\\uab90", "\\u13c1", "\\uab91", "\\u13c2", "\\uab92",
     "\\u13c3", "\\uab93", "\\u13c4", "\\uab94", "\\u13c5", "\\uab95",
     "\\u13c6", "\\uab96", "\\u13c7", "\\uab97", "\\u13c8", "\\uab98",
     "\\u13c9", "\\uab99", "\\u13ca", "\\uab9a", "\\u13cb", "\\uab9b",
     "\\u13cc", "\\uab9c", "\\u13cd", "\\uab9d", "\\u13ce", "\\uab9e",
     "\\u13cf", "\\uab9f", "\\u13d0", "\\uaba0", "\\u13d1", "\\uaba1",
     "\\u13d2", "\\uaba2", "\\u13d3", "\\uaba3", "\\u13d4", "\\uaba4",
     "\\u13d5", "\\uaba5", "\\u13d6", "\\uaba6", "\\u13d7", "\\uaba7",
     "\\u13d8", "\\uaba8", "\\u13d9", "\\uaba9", "\\u13da", "\\uabaa",
     "\\u13db", "\\uabab", "\\u13dc", "\\uabac", "\\u13dd", "\\uabad",
     "\\u13de", "\\uabae", "\\u13df", "\\uabaf", "\\u13e0", "\\uabb0",
     "\\u13e1", "\\uabb1", "\\u13e2", "\\uabb2", "\\u13e3", "\\uabb3",
     "\\u13e4", "\\uabb4", "\\u13e5", "\\uabb5", "\\u13e6", "\\uabb6",
     "\\u13e7", "\\uabb7", "\\u13e8", "\\uabb8", "\\u13e9", "\\uabb9",
     "\\u13ea", "\\uabba", "\\u13eb", "\\uabbb", "\\u13ec", "\\uabbc",
     "\\u13ed", "\\uabbd", "\\u13ee", "\\uabbe", "\\u13ef", "\\uabbf",
     "\\u13f0", "\\u13f8", "\\u13f1", "\\u13f9", "\\u13f2", "\\u13fa",
     "\\u13f3", "\\u13fb", "\\u13f4", "\\u13fc", "\\u13f5", "\\u13fd",
     "\\u1c89", "\\u1c8a", "\\u1c90", "\\u10d0", "\\u1c91", "\\u10d1",
     "\\u1c92", "\\u10d2", "\\u1c93", "\\u10d3", "\\u1c94", "\\u10d4",
     "\\u1c95", "\\u10d5", "\\u1c96", "\\u10d6", "\\u1c97", "\\u10d7",
     "\\u1c98", "\\u10d8", "\\u1c99", "\\u10d9", "\\u1c9a", "\\u10da",
     "\\u1c9b", "\\u10db", "\\u1c9c", "\\u10dc", "\\u1c9d", "\\u10dd",
     "\\u1c9e", "\\u10de", "\\u1c9f", "\\u10df", "\\u1ca0", "\\u10e0",
     "\\u1ca1", "\\u10e1", "\\u1ca2", "\\u10e2", "\\u1ca3", "\\u10e3",
     "\\u1ca4", "\\u10e4", "\\u1ca5", "\\u10e5", "\\u1ca6", "\\u10e6",
     "\\u1ca7", "\\u10e7", "\\u1ca8", "\\u10e8", "\\u1ca9", "\\u10e9",
     "\\u1caa", "\\u10ea", "\\u1cab", "\\u10eb", "\\u1cac", "\\u10ec",
     "\\u1cad", "\\u10ed", "\\u1cae", "\\u10ee", "\\u1caf", "\\u10ef",
     "\\u1cb0", "\\u10f0", "\\u1cb1", "\\u10f1", "\\u1cb2", "\\u10f2",
     "\\u1cb3", "\\u10f3", "\\u1cb4", "\\u10f4", "\\u1cb5", "\\u10f5",
     "\\u1cb6", "\\u10f6", "\\u1cb7", "\\u10f7", "\\u1cb8", "\\u10f8",
     "\\u1cb9", "\\u10f9", "\\u1cba", "\\u10fa", "\\u1cbd", "\\u10fd",
     "\\u1cbe", "\\u10fe", "\\u1cbf", "\\u10ff", "\\u1e00", "\\u1e01",
     "\\u1e02", "\\u1e03", "\\u1e04", "\\u1e05", "\\u1e06", "\\u1e07",
     "\\u1e08", "\\u1e09", "\\u1e0a", "\\u1e0b", "\\u1e0c", "\\u1e0d",
     "\\u1e0e", "\\u1e0f", "\\u1e10", "\\u1e11", "\\u1e12", "\\u1e13",
     "\\u1e14", "\\u1e15", "\\u1e16", "\\u1e17", "\\u1e18", "\\u1e19",
     "\\u1e1a", "\\u1e1b", "\\u1e1c", "\\u1e1d", "\\u1e1e", "\\u1e1f",
     "\\u1e20", "\\u1e21", "\\u1e22", "\\u1e23", "\\u1e24", "\\u1e25",
     "\\u1e26", "\\u1e27", "\\u1e28", "\\u1e29", "\\u1e2a", "\\u1e2b",
     "\\u1e2c", "\\u1e2d", "\\u1e2e", "\\u1e2f", "\\u1e30", "\\u1e31",
     "\\u1e32", "\\u1e33", "\\u1e34", "\\u1e35", "\\u1e36", "\\u1e37",
     "\\u1e38", "\\u1e39", "\\u1e3a", "\\u1e3b", "\\u1e3c", "\\u1e3d",
     "\\u1e3e", "\\u1e3f", "\\u1e40", "\\u1e41", "\\u1e42", "\\u1e43",
     "\\u1e44", "\\u1e45", "\\u1e46", "\\u1e47", "\\u1e48", "\\u1e49",
     "\\u1e4a", "\\u1e4b", "\\u1e4c", "\\u1e4d", "\\u1e4e", "\\u1e4f",
     "\\u1e50", "\\u1e51", "\\u1e52", "\\u1e53", "\\u1e54", "\\u1e55",
     "\\u1e56", "\\u1e57", "\\u1e58", "\\u1e59", "\\u1e5a", "\\u1e5b",
     "\\u1e5c", "\\u1e5d", "\\u1e5e", "\\u1e5f", "\\u1e60", "\\u1e61",
     "\\u1e62", "\\u1e63", "\\u1e64", "\\u1e65", "\\u1e66", "\\u1e67",
     "\\u1e68", "\\u1e69", "\\u1e6a", "\\u1e6b", "\\u1e6c", "\\u1e6d",
     "\\u1e6e", "\\u1e6f", "\\u1e70", "\\u1e71", "\\u1e72", "\\u1e73",
     "\\u1e74", "\\u1e75", "\\u1e76", "\\u1e77", "\\u1e78", "\\u1e79",
     "\\u1e7a", "\\u1e7b", "\\u1e7c", "\\u1e7d", "\\u1e7e", "\\u1e7f",
     "\\u1e80", "\\u1e81", "\\u1e82", "\\u1e83", "\\u1e84", "\\u1e85",
     "\\u1e86", "\\u1e87", "\\u1e88", "\\u1e89", "\\u1e8a", "\\u1e8b",
     "\\u1e8c", "\\u1e8d", "\\u1e8e", "\\u1e8f", "\\u1e90", "\\u1e91",
     "\\u1e92", "\\u1e93", "\\u1e94", "\\u1e95", "\\u1e9e", "ß",
     "\\u1ea0", "\\u1ea1", "\\u1ea2", "\\u1ea3", "\\u1ea4", "\\u1ea5",
     "\\u1ea6", "\\u1ea7", "\\u1ea8", "\\u1ea9", "\\u1eaa", "\\u1eab",
     "\\u1eac", "\\u1ead", "\\u1eae", "\\u1eaf", "\\u1eb0", "\\u1eb1",
     "\\u1eb2", "\\u1eb3", "\\u1eb4", "\\u1eb5", "\\u1eb6", "\\u1eb7",
     "\\u1eb8", "\\u1eb9", "\\u1eba", "\\u1ebb", "\\u1ebc", "\\u1ebd",
     "\\u1ebe", "\\u1ebf", "\\u1ec0", "\\u1ec1", "\\u1ec2", "\\u1ec3",
     "\\u1ec4", "\\u1ec5", "\\u1ec6", "\\u1ec7", "\\u1ec8", "\\u1ec9",
     "\\u1eca", "\\u1ecb", "\\u1ecc", "\\u1ecd", "\\u1ece", "\\u1ecf",
     "\\u1ed0", "\\u1ed1", "\\u1ed2", "\\u1ed3", "\\u1ed4", "\\u1ed5",
     "\\u1ed6", "\\u1ed7", "\\u1ed8", "\\u1ed9", "\\u1eda", "\\u1edb",
     "\\u1edc", "\\u1edd", "\\u1ede", "\\u1edf", "\\u1ee0", "\\u1ee1",
     "\\u1ee2", "\\u1ee3", "\\u1ee4", "\\u1ee5", "\\u1ee6", "\\u1ee7",
     "\\u1ee8", "\\u1ee9", "\\u1eea", "\\u1eeb", "\\u1eec", "\\u1eed",
     "\\u1eee", "\\u1eef", "\\u1ef0", "\\u1ef1", "\\u1ef2", "\\u1ef3",
     "\\u1ef4", "\\u1ef5", "\\u1ef6", "\\u1ef7", "\\u1ef8", "\\u1ef9",
     "\\u1efa", "\\u1efb", "\\u1efc", "\\u1efd", "\\u1efe", "\\u1eff",
     "\\u1f08", "\\u1f00", "\\u1f09", "\\u1f01", "\\u1f0a", "\\u1f02",
     "\\u1f0b", "\\u1f03", "\\u1f0c", "\\u1f04", "\\u1f0d", "\\u1f05",
     "\\u1f0e", "\\u1f06", "\\u1f0f", "\\u1f07", "\\u1f18", "\\u1f10",
     "\\u1f19", "\\u1f11", "\\u1f1a", "\\u1f12", "\\u1f1b", "\\u1f13",
     "\\u1f1c", "\\u1f14", "\\u1f1d", "\\u1f15", "\\u1f28", "\\u1f20",
     "\\u1f29", "\\u1f21", "\\u1f2a", "\\u1f22", "\\u1f2b", "\\u1f23",
     "\\u1f2c", "\\u1f24", "\\u1f2d", "\\u1f25", "\\u1f2e", "\\u1f26",
     "\\u1f2f", "\\u1f27", "\\u1f38", "\\u1f30", "\\u1f39", "\\u1f31",
     "\\u1f3a", "\\u1f32", "\\u1f3b", "\\u1f33", "\\u1f3c", "\\u1f34",
     "\\u1f3d", "\\u1f35", "\\u1f3e", "\\u1f36", "\\u1f3f", "\\u1f37",
     "\\u1f48", "\\u1f40", "\\u1f49", "\\u1f41", "\\u1f4a", "\\u1f42",
     "\\u1f4b", "\\u1f43", "\\u1f4c", "\\u1f44", "\\u1f4d", "\\u1f45",
     "\\u1f59", "\\u1f51", "\\u1f5b", "\\u1f53", "\\u1f5d", "\\u1f55",
     "\\u1f5f", "\\u1f57", "\\u1f68", "\\u1f60", "\\u1f69", "\\u1f61",
     "\\u1f6a", "\\u1f62", "\\u1f6b", "\\u1f63", "\\u1f6c", "\\u1f64",
     "\\u1f6d", "\\u1f65", "\\u1f6e", "\\u1f66", "\\u1f6f", "\\u1f67",
     "\\u1f88", "\\u1f80", "\\u1f89", "\\u1f81", "\\u1f8a", "\\u1f82",
     "\\u1f8b", "\\u1f83", "\\u1f8c", "\\u1f84", "\\u1f8d", "\\u1f85",
     "\\u1f8e", "\\u1f86", "\\u1f8f", "\\u1f87", "\\u1f98", "\\u1f90",
     "\\u1f99", "\\u1f91", "\\u1f9a", "\\u1f92", "\\u1f9b", "\\u1f93",
     "\\u1f9c", "\\u1f94", "\\u1f9d", "\\u1f95", "\\u1f9e", "\\u1f96",
     "\\u1f9f", "\\u1f97", "\\u1fa8", "\\u1fa0", "\\u1fa9", "\\u1fa1",
     "\\u1faa", "\\u1fa2", "\\u1fab", "\\u1fa3", "\\u1fac", "\\u1fa4",
     "\\u1fad", "\\u1fa5", "\\u1fae", "\\u1fa6", "\\u1faf", "\\u1fa7",
     "\\u1fb8", "\\u1fb0", "\\u1fb9", "\\u1fb1", "\\u1fba", "\\u1f70",
     "\\u1fbb", "\\u1f71", "\\u1fbc", "\\u1fb3", "\\u1fc8", "\\u1f72",
     "\\u1fc9", "\\u1f73", "\\u1fca", "\\u1f74", "\\u1fcb", "\\u1f75",
     "\\u1fcc", "\\u1fc3", "\\u1fd8", "\\u1fd0", "\\u1fd9", "\\u1fd1",
     "\\u1fda", "\\u1f76", "\\u1fdb", "\\u1f77", "\\u1fe8", "\\u1fe0",
     "\\u1fe9", "\\u1fe1", "\\u1fea", "\\u1f7a", "\\u1feb", "\\u1f7b",
     "\\u1fec", "\\u1fe5", "\\u1ff8", "\\u1f78", "\\u1ff9", "\\u1f79",
     "\\u1ffa", "\\u1f7c", "\\u1ffb", "\\u1f7d", "\\u1ffc", "\\u1ff3",
     "\\u2126", "\\u03c9", "\\u212a", "k", "\\u212b", "å",
     "\\u2132", "\\u214e", "\\u2160", "\\u2170", "\\u2161", "\\u2171",
     "\\u2162", "\\u2172", "\\u2163", "\\u2173", "\\u2164", "\\u2174",
     "\\u2165", "\\u2175", "\\u2166", "\\u2176", "\\u2167", "\\u2177",
     "\\u2168", "\\u2178", "\\u2169", "\\u2179", "\\u216a", "\\u217a",
     "\\u216b", "\\u217b", "\\u216c", "\\u217c", "\\u216d", "\\u217d",
     "\\u216e", "\\u217e", "\\u216f", "\\u217f", "\\u2183", "\\u2184",
     "\\u24b6", "\\u24d0", "\\u24b7", "\\u24d1", "\\u24b8", "\\u24d2",
     "\\u24b9", "\\u24d3", "\\u24ba", "\\u24d4", "\\u24bb", "\\u24d5",
     "\\u24bc", "\\u24d6", "\\u24bd", "\\u24d7", "\\u24be", "\\u24d8",
     "\\u24bf", "\\u24d9", "\\u24c0", "\\u24da", "\\u24c1", "\\u24db",
     "\\u24c2", "\\u24dc", "\\u24c3", "\\u24dd", "\\u24c4", "\\u24de",
     "\\u24c5", "\\u24df", "\\u24c6", "\\u24e0", "\\u24c7", "\\u24e1",
     "\\u24c8", "\\u24e2", "\\u24c9", "\\u24e3", "\\u24ca", "\\u24e4",
     "\\u24cb", "\\u24e5", "\\u24cc", "\\u24e6", "\\u24cd", "\\u24e7",
     "\\u24ce", "\\u24e8", "\\u24cf", "\\u24e9", "\\u2c00", "\\u2c30",
     "\\u2c01", "\\u2c31", "\\u2c02", "\\u2c32", "\\u2c03", "\\u2c33",
     "\\u2c04", "\\u2c34", "\\u2c05", "\\u2c35", "\\u2c06", "\\u2c36",
     "\\u2c07", "\\u2c37", "\\u2c08", "\\u2c38", "\\u2c09", "\\u2c39",
     "\\u2c0a", "\\u2c3a", "\\u2c0b", "\\u2c3b", "\\u2c0c", "\\u2c3c",
     "\\u2c0d", "\\u2c3d", "\\u2c0e", "\\u2c3e", "\\u2c0f", "\\u2c3f",
     "\\u2c10", "\\u2c40", "\\u2c11", "\\u2c41", "\\u2c12", "\\u2c42",
     "\\u2c13", "\\u2c43", "\\u2c14", "\\u2c44", "\\u2c15", "\\u2c45",
     "\\u2c16", "\\u2c46", "\\u2c17", "\\u2c47", "\\u2c18", "\\u2c48",
     "\\u2c19", "\\u2c49", "\\u2c1a", "\\u2c4a", "\\u2c1b", "\\u2c4b",
     "\\u2c1c", "\\u2c4c", "\\u2c1d", "\\u2c4d", "\\u2c1e", "\\u2c4e",
     "\\u2c1f", "\\u2c4f", "\\u2c20", "\\u2c50", "\\u2c21", "\\u2c51",
     "\\u2c22", "\\u2c52", "\\u2c23", "\\u2c53", "\\u2c24", "\\u2c54",
     "\\u2c25", "\\u2c55", "\\u2c26", "\\u2c56", "\\u2c27", "\\u2c57",
     "\\u2c28", "\\u2c58", "\\u2c29", "\\u2c59", "\\u2c2a", "\\u2c5a",
     "\\u2c2b", "\\u2c5b", "\\u2c2c", "\\u2c5c", "\\u2c2d", "\\u2c5d",
     "\\u2c2e", "\\u2c5e", "\\u2c2f", "\\u2c5f", "\\u2c60", "\\u2c61",
     "\\u2c62", "\\u026b", "\\u2c63", "\\u1d7d", "\\u2c64", "\\u027d",
     "\\u2c67", "\\u2c68", "\\u2c69", "\\u2c6a", "\\u2c6b", "\\u2c6c",
     "\\u2c6d", "\\u0251", "\\u2c6e", "\\u0271", "\\u2c6f", "\\u0250",
     "\\u2c70", "\\u0252", "\\u2c72", "\\u2c73", "\\u2c75", "\\u2c76",
     "\\u2c7e", "\\u023f", "\\u2c7f", "\\u0240", "\\u2c80", "\\u2c81",
     "\\u2c82", "\\u2c83", "\\u2c84", "\\u2c85", "\\u2c86", "\\u2c87",
     "\\u2c88", "\\u2c89", "\\u2c8a", "\\u2c8b", "\\u2c8c", "\\u2c8d",
     "\\u2c8e", "\\u2c8f", "\\u2c90", "\\u2c91", "\\u2c92", "\\u2c93",
     "\\u2c94", "\\u2c95", "\\u2c96", "\\u2c97", "\\u2c98", "\\u2c99",
     "\\u2c9a", "\\u2c9b", "\\u2c9c", "\\u2c9d", "\\u2c9e", "\\u2c9f",
     "\\u2ca0", "\\u2ca1", "\\u2ca2", "\\u2ca3", "\\u2ca4", "\\u2ca5",
     "\\u2ca6", "\\u2ca7", "\\u2ca8", "\\u2ca9", "\\u2caa", "\\u2cab",
     "\\u2cac", "\\u2cad", "\\u2cae", "\\u2caf", "\\u2cb0", "\\u2cb1",
     "\\u2cb2", "\\u2cb3", "\\u2cb4", "\\u2cb5", "\\u2cb6", "\\u2cb7",
     "\\u2cb8", "\\u2cb9", "\\u2cba", "\\u2cbb", "\\u2cbc", "\\u2cbd",
     "\\u2cbe", "\\u2cbf", "\\u2cc0", "\\u2cc1", "\\u2cc2", "\\u2cc3",
     "\\u2cc4", "\\u2cc5", "\\u2cc6", "\\u2cc7", "\\u2cc8", "\\u2cc9",
     "\\u2cca", "\\u2ccb", "\\u2ccc", "\\u2ccd", "\\u2cce", "\\u2ccf",
     "\\u2cd0", "\\u2cd1", "\\u2cd2", "\\u2cd3", "\\u2cd4", "\\u2cd5",
     "\\u2cd6", "\\u2cd7", "\\u2cd8", "\\u2cd9", "\\u2cda", "\\u2cdb",
     "\\u2cdc", "\\u2cdd", "\\u2cde", "\\u2cdf", "\\u2ce0", "\\u2ce1",
     "\\u2ce2", "\\u2ce3", "\\u2ceb", "\\u2cec", "\\u2ced", "\\u2cee",
     "\\u2cf2", "\\u2cf3", "\\ua640", "\\ua641", "\\ua642", "\\ua643",
     "\\ua644", "\\ua645", "\\ua646", "\\ua647", "\\ua648", "\\ua649",
     "\\ua64a", "\\ua64b", "\\ua64c", "\\ua64d", "\\ua64e", "\\ua64f",
     "\\ua650", "\\ua651", "\\ua652", "\\ua653", "\\ua654", "\\ua655",
     "\\ua656", "\\ua657", "\\ua658", "\\ua659", "\\ua65a", "\\ua65b",
     "\\ua65c", "\\ua65d", "\\ua65e", "\\ua65f", "\\ua660", "\\ua661",
     "\\ua662", "\\ua663", "\\ua664", "\\ua665", "\\ua666", "\\ua667",
     "\\ua668", "\\ua669", "\\ua66a", "\\ua66b", "\\ua66c", "\\ua66d",
     "\\ua680", "\\ua681", "\\ua682", "\\ua683", "\\ua684", "\\ua685",
     "\\ua686", "\\ua687", "\\ua688", "\\ua689", "\\ua68a", "\\ua68b",
     "\\ua68c", "\\ua68d", "\\ua68e", "\\ua68f", "\\ua690", "\\ua691",
     "\\ua692", "\\ua693", "\\ua694", "\\ua695", "\\ua696", "\\ua697",
     "\\ua698", "\\ua699", "\\ua69a", "\\ua69b", "\\ua722", "\\ua723",
     "\\ua724", "\\ua725", "\\ua726", "\\ua727", "\\ua728", "\\ua729",
     "\\ua72a", "\\ua72b", "\\ua72c", "\\ua72d", "\\ua72e", "\\ua72f",
     "\\ua732", "\\ua733", "\\ua734", "\\ua735", "\\ua736", "\\ua737",
     "\\ua738", "\\ua739", "\\ua73a", "\\ua73b", "\\ua73c", "\\ua73d",
     "\\ua73e", "\\ua73f", "\\ua740", "\\ua741", "\\ua742", "\\ua743",
     "\\ua744", "\\ua745", "\\ua746", "\\ua747", "\\ua748", "\\ua749",
     "\\ua74a", "\\ua74b", "\\ua74c", "\\ua74d", "\\ua74e", "\\ua74f",
     "\\ua750", "\\ua751", "\\ua752", "\\ua753", "\\ua754", "\\ua755",
     "\\ua756", "\\ua757", "\\ua758", "\\ua759", "\\ua75a", "\\ua75b",
     "\\ua75c", "\\ua75d", "\\ua75e", "\\ua75f", "\\ua760", "\\ua761",
     "\\ua762", "\\ua763", "\\ua764", "\\ua765", "\\ua766", "\\ua767",
     "\\ua768", "\\ua769", "\\ua76a", "\\ua76b", "\\ua76c", "\\ua76d",
     "\\ua76e", "\\ua76f", "\\ua779", "\\ua77a", "\\ua77b", "\\ua77c",
     "\\ua77d", "\\u1d79", "\\ua77e", "\\ua77f", "\\ua780", "\\ua781",
     "\\ua782", "\\ua783", "\\ua784", "\\ua785", "\\ua786", "\\ua787",
     "\\ua78b", "\\ua78c", "\\ua78d", "\\u0265", "\\ua790", "\\ua791",
     "\\ua792", "\\ua793", "\\ua796", "\\ua797", "\\ua798", "\\ua799",
     "\\ua79a", "\\ua79b", "\\ua79c", "\\ua79d", "\\ua79e", "\\ua79f",
     "\\ua7a0", "\\ua7a1", "\\ua7a2", "\\ua7a3", "\\ua7a4", "\\ua7a5",
     "\\ua7a6", "\\ua7a7", "\\ua7a8", "\\ua7a9", "\\ua7aa", "\\u0266",
     "\\ua7ab", "\\u025c", "\\ua7ac", "\\u0261", "\\ua7ad", "\\u026c",
     "\\ua7ae", "\\u026a", "\\ua7b0", "\\u029e", "\\ua7b1", "\\u0287",
     "\\ua7b2", "\\u029d", "\\ua7b3", "\\uab53", "\\ua7b4", "\\ua7b5",
     "\\ua7b6", "\\ua7b7", "\\ua7b8", "\\ua7b9", "\\ua7ba", "\\ua7bb",
     "\\ua7bc", "\\ua7bd", "\\ua7be", "\\ua7bf", "\\ua7c0", "\\ua7c1",
     "\\ua7c2", "\\ua7c3", "\\ua7c4", "\\ua794", "\\ua7c5", "\\u0282",
     "\\ua7c6", "\\u1d8e", "\\ua7c7", "\\ua7c8", "\\ua7c9", "\\ua7ca",
     "\\ua7cb", "\\u0264", "\\ua7cc", "\\ua7cd", "\\ua7ce", "\\ua7cf",
     "\\ua7d0", "\\ua7d1", "\\ua7d2", "\\ua7d3", "\\ua7d4", "\\ua7d5",
     "\\ua7d6", "\\ua7d7", "\\ua7d8", "\\ua7d9", "\\ua7da", "\\ua7db",
     "\\ua7dc", "\\u019b", "\\ua7f5", "\\ua7f6", "\\uff21", "\\uff41",
     "\\uff22", "\\uff42", "\\uff23", "\\uff43", "\\uff24", "\\uff44",
     "\\uff25", "\\uff45", "\\uff26", "\\uff46", "\\uff27", "\\uff47",
     "\\uff28", "\\uff48", "\\uff29", "\\uff49", "\\uff2a", "\\uff4a",
     "\\uff2b", "\\uff4b", "\\uff2c", "\\uff4c", "\\uff2d", "\\uff4d",
     "\\uff2e", "\\uff4e", "\\uff2f", "\\uff4f", "\\uff30", "\\uff50",
     "\\uff31", "\\uff51", "\\uff32", "\\uff52", "\\uff33", "\\uff53",
     "\\uff34", "\\uff54", "\\uff35", "\\uff55", "\\uff36", "\\uff56",
     "\\uff37", "\\uff57", "\\uff38", "\\uff58", "\\uff39", "\\uff59",
     "\\uff3a", "\\uff5a">>

\* The surrogate pairs that toLowerCase changes: the high surrogate, the low
\* surrogate and the low surrogate of the lower-case form (its high
\* surrogate is the same), three entries for a pair.
LowerSurrogateList ==
    <<"\\ud801", "\\udc00", "\\udc28", "\\ud801", "\\udc01", "\\udc29",
     "\\ud801", "\\udc02", "\\udc2a", "\\ud801", "\\udc03", "\\udc2b",
     "\\ud801", "\\udc04", "\\udc2c", "\\ud801", "\\udc05", "\\udc2d",
     "\\ud801", "\\udc06", "\\udc2e", "\\ud801", "\\udc07", "\\udc2f",
     "\\ud801", "\\udc08", "\\udc30", "\\ud801", "\\udc09", "\\udc31",
     "\\ud801", "\\udc0a", "\\udc32", "\\ud801", "\\udc0b", "\\udc33",
     "\\ud801", "\\udc0c", "\\udc34", "\\ud801", "\\udc0d", "\\udc35",
     "\\ud801", "\\udc0e", "\\udc36", "\\ud801", "\\udc0f", "\\udc37",
     "\\ud801", "\\udc10", "\\udc38", "\\ud801", "\\udc11", "\\udc39",
     "\\ud801", "\\udc12", "\\udc3a", "\\ud801", "\\udc13", "\\udc3b",
     "\\ud801", "\\udc14", "\\udc3c", "\\ud801", "\\udc15", "\\udc3d",
     "\\ud801", "\\udc16", "\\udc3e", "\\ud801", "\\udc17", "\\udc3f",
     "\\ud801", "\\udc18", "\\udc40", "\\ud801", "\\udc19", "\\udc41",
     "\\ud801", "\\udc1a", "\\udc42", "\\ud801", "\\udc1b", "\\udc43",
     "\\ud801", "\\udc1c", "\\udc44", "\\ud801", "\\udc1d", "\\udc45",
     "\\ud801", "\\udc1e", "\\udc46", "\\ud801", "\\udc1f", "\\udc47",
     "\\ud801", "\\udc20", "\\udc48", "\\ud801", "\\udc21", "\\udc49",
     "\\ud801", "\\udc22", "\\udc4a", "\\ud801", "\\udc23", "\\udc4b",
     "\\ud801", "\\udc24", "\\udc4c", "\\ud801", "\\udc25", "\\udc4d",
     "\\ud801", "\\udc26", "\\udc4e", "\\ud801", "\\udc27", "\\udc4f",
     "\\ud801", "\\udcb0", "\\udcd8", "\\ud801", "\\udcb1", "\\udcd9",
     "\\ud801", "\\udcb2", "\\udcda", "\\ud801", "\\udcb3", "\\udcdb",
     "\\ud801", "\\udcb4", "\\udcdc", "\\ud801", "\\udcb5", "\\udcdd",
     "\\ud801", "\\udcb6", "\\udcde", "\\ud801", "\\udcb7", "\\udcdf",
     "\\ud801", "\\udcb8", "\\udce0", "\\ud801", "\\udcb9", "\\udce1",
     "\\ud801", "\\udcba", "\\udce2", "\\ud801", "\\udcbb", "\\udce3",
     "\\ud801", "\\udcbc", "\\udce4", "\\ud801", "\\udcbd", "\\udce5",
     "\\ud801", "\\udcbe", "\\udce6", "\\ud801", "\\udcbf", "\\udce7",
     "\\ud801", "\\udcc0", "\\udce8", "\\ud801", "\\udcc1", "\\udce9",
     "\\ud801", "\\udcc2", "\\udcea", "\\ud801", "\\udcc3", "\\udceb",
     "\\ud801", "\\udcc4", "\\udcec", "\\ud801", "\\udcc5", "\\udced",
     "\\ud801", "\\udcc6", "\\udcee", "\\ud801", "\\udcc7", "\\udcef",
     "\\ud801", "\\udcc8", "\\udcf0", "\\ud801", "\\udcc9", "\\udcf1",
     "\\ud801", "\\udcca", "\\udcf2", "\\ud801", "\\udccb", "\\udcf3",
     "\\ud801", "\\udccc", "\\udcf4", "\\ud801", "\\udccd", "\\udcf5",
     "\\ud801", "\\udcce", "\\udcf6", "\\ud801", "\\udccf", "\\udcf7",
     "\\ud801", "\\udcd0", "\\udcf8", "\\ud801", "\\udcd1", "\\udcf9",
     "\\ud801", "\\udcd2", "\\udcfa", "\\ud801", "\\udcd3", "\\udcfb",
     "\\ud801", "\\udd70", "\\udd97", "\\ud801", "\\udd71", "\\udd98",
     "\\ud801", "\\udd72", "\\udd99", "\\ud801", "\\udd73", "\\udd9a",
     "\\ud801", "\\udd74", "\\udd9b", "\\ud801", "\\udd75", "\\udd9c",
     "\\ud801", "\\udd76", "\\udd9d", "\\ud801", "\\udd77", "\\udd9e",
     "\\ud801", "\\udd78", "\\udd9f", "\\ud801", "\\udd79", "\\udda0",
     "\\ud801", "\\udd7a", "\\udda1", "\\ud801", "\\udd7c", "\\udda3",
     "\\ud801", "\\udd7d", "\\udda4", "\\ud801", "\\udd7e", "\\udda5",
     "\\ud801", "\\udd7f", "\\udda6", "\\ud801", "\\udd80", "\\udda7",
     "\\ud801", "\\udd81", "\\udda8", "\\ud801", "\\udd82", "\\udda9",
     "\\ud801", "\\udd83", "\\uddaa", "\\ud801", "\\udd84", "\\uddab",
     "\\ud801", "\\udd85", "\\uddac", "\\ud801", "\\udd86", "\\uddad",
     "\\ud801", "\\udd87", "\\uddae", "\\ud801", "\\udd88", "\\uddaf",
     "\\ud801", "\\udd89", "\\uddb0", "\\ud801", "\\udd8a", "\\uddb1",
     "\\ud801", "\\udd8c", "\\uddb3", "\\ud801", "\\udd8d", "\\uddb4",
     "\\ud801", "\\udd8e", "\\uddb5", "\\ud801", "\\udd8f", "\\uddb6",
     "\\ud801", "\\udd90", "\\uddb7", "\\ud801", "\\udd91", "\\uddb8",
     "\\ud801", "\\udd92", "\\uddb9", "\\ud801", "\\udd94", "\\uddbb",
     "\\ud801", "\\udd95", "\\uddbc", "\\ud803", "\\udc80", "\\udcc0",
     "\\ud803", "\\udc81", "\\udcc1", "\\ud803", "\\udc82", "\\udcc2",
     "\\ud803", "\\udc83", "\\udcc3", "\\ud803", "\\udc84", "\\udcc4",
     "\\ud803", "\\udc85", "\\udcc5", "\\ud803", "\\udc86", "\\udcc6",
     "\\ud803", "\\udc87", "\\udcc7", "\\ud803", "\\udc88", "\\udcc8",
     "\\ud803", "\\udc89", "\\udcc9", "\\ud803", "\\udc8a", "\\udcca",
     "\\ud803", "\\udc8b", "\\udccb", "\\ud803", "\\udc8c", "\\udccc",
     "\\ud803", "\\udc8d", "\\udccd", "\\ud803", "\\udc8e", "\\udcce",
     "\\ud803", "\\udc8f", "\\udccf", "\\ud803", "\\udc90", "\\udcd0",
     "\\ud803", "\\udc91", "\\udcd1", "\\ud803", "\\udc92", "\\udcd2",
     "\\ud803", "\\udc93", "\\udcd3", "\\ud803", "\\udc94", "\\udcd4",
     "\\ud803", "\\udc95", "\\udcd5", "\\ud803", "\\udc96", "\\udcd6",
     "\\ud803", "\\udc97", "\\udcd7", "\\ud803", "\\udc98", "\\udcd8",
     "\\ud803", "\\udc99", "\\udcd9", "\\ud803", "\\udc9a", "\\udcda",
     "\\ud803", "\\udc9b", "\\udcdb", "\\ud803", "\\udc9c", "\\udcdc",
     "\\ud803", "\\udc9d", "\\udcdd", "\\ud803", "\\udc9e", "\\udcde",
     "\\ud803", "\\udc9f", "\\udcdf", "\\ud803", "\\udca0", "\\udce0",
     "\\ud803", "\\udca1", "\\udce1", "\\ud803", "\\udca2", "\\udce2",
     "\\ud803", "\\udca3", "\\udce3", "\\ud803", "\\udca4", "\\udce4",
     "\\ud803", "\\udca5", "\\udce5", "\\ud803", "\\udca6", "\\udce6",
     "\\ud803", "\\udca7", "\\udce7", "\\ud803", "\\udca8", "\\udce8",
     "\\ud803", "\\udca9", "\\udce9", "\\ud803", "\\udcaa", "\\udcea",
     "\\ud803", "\\udcab", "\\udceb", "\\ud803", "\\udcac", "\\udcec",
     "\\ud803", "\\udcad", "\\udced", "\\ud803", "\\udcae", "\\udcee",
     "\\ud803", "\\udcaf", "\\udcef", "\\ud803", "\\udcb0", "\\udcf0",
     "\\ud803", "\\udcb1", "\\udcf1", "\\ud803", "\\udcb2", "\\udcf2",
     "\\ud803", "\\udd50", "\\udd70", "\\ud803", "\\udd51", "\\udd71",
     "\\ud803", "\\udd52", "\\udd72", "\\ud803", "\\udd53", "\\udd73",
     "\\ud803", "\\udd54", "\\udd74", "\\ud803", "\\udd55", "\\udd75",
     "\\ud803", "\\udd56", "\\udd76", "\\ud803", "\\udd57", "\\udd77",
     "\\ud803", "\\udd58", "\\udd78", "\\ud803", "\\udd59", "\\udd79",
     "\\ud803", "\\udd5a", "\\udd7a", "\\ud803", "\\udd5b", "\\udd7b",
     "\\ud803", "\\udd5c", "\\udd7c", "\\ud803", "\\udd5d", "\\udd7d",
     "\\ud803", "\\udd5e", "\\udd7e", "\\ud803", "\\udd5f", "\\udd7f",
     "\\ud803", "\\udd60", "\\udd80", "\\ud803", "\\udd61", "\\udd81",
     "\\ud803", "\\udd62", "\\udd82", "\\ud803", "\\udd63", "\\udd83",
     "\\ud803", "\\udd64", "\\udd84", "\\ud803", "\\udd65", "\\udd85",
     "\\ud806", "\\udca0", "\\udcc0", "\\ud806", "\\udca1", "\\udcc1",
     "\\ud806", "\\udca2", "\\udcc2", "\\ud806", "\\udca3", "\\udcc3",
     "\\ud806", "\\udca4", "\\udcc4", "\\ud806", "\\udca5", "\\udcc5",
     "\\ud806", "\\udca6", "\\udcc6", "\\ud806", "\\udca7", "\\udcc7",
     "\\ud806", "\\udca8", "\\udcc8", "\\ud806", "\\udca9", "\\udcc9",
     "\\ud806", "\\udcaa", "\\udcca", "\\ud806", "\\udcab", "\\udccb",
     "\\ud806", "\\udcac", "\\udccc", "\\ud806", "\\udcad", "\\udccd",
     "\\ud806", "\\udcae", "\\udcce", "\\ud806", "\\udcaf", "\\udccf",
     "\\ud806", "\\udcb0", "\\udcd0", "\\ud806", "\\udcb1", "\\udcd1",
     "\\ud806", "\\udcb2", "\\udcd2", "\\ud806", "\\udcb3", "\\udcd3",
     "\\ud806", "\\udcb4", "\\udcd4", "\\ud806", "\\udcb5", "\\udcd5",
     "\\ud806", "\\udcb6", "\\udcd6", "\\ud806", "\\udcb7", "\\udcd7",
     "\\ud806", "\\udcb8", "\\udcd8", "\\ud806", "\\udcb9", "\\udcd9",
     "\\ud806", "\\udcba", "\\udcda", "\\ud806", "\\udcbb", "\\udcdb",
     "\\ud806", "\\udcbc", "\\udcdc", "\\ud806", "\\udcbd", "\\udcdd",
     "\\ud806", "\\udcbe", "\\udcde", "\\ud806", "\\udcbf", "\\udcdf",
     "\\ud81b", "\\ude40", "\\ude60", "\\ud81b", "\\ude41", "\\ude61",
     "\\ud81b", "\\ude42", "\\ude62", "\\ud81b", "\\ude43", "\\ude63",
     "\\ud81b", "\\ude44", "\\ude64", "\\ud81b", "\\ude45", "\\ude65",
     "\\ud81b", "\\ude46", "\\ude66", "\\ud81b", "\\ude47", "\\ude67",
     "\\ud81b", "\\ude48", "\\ude68", "\\ud81b", "\\ude49", "\\ude69",
     "\\ud81b", "\\ude4a", "\\ude6a", "\\ud81b", "\\ude4b", "\\ude6b",
     "\\ud81b", "\\ude4c", "\\ude6c", "\\ud81b", "\\ude4d", "\\ude6d",
     "\\ud81b", "\\ude4e", "\\ude6e", "\\ud81b", "\\ude4f", "\\ude6f",
     "\\ud81b", "\\ude50", "\\ude70", "\\ud81b", "\\ude51", "\\ude71",
     "\\ud81b", "\\ude52", "\\ude72", "\\ud81b", "\\ude53", "\\ude73",
     "\\ud81b", "\\ude54", "\\ude74", "\\ud81b", "\\ude55", "\\ude75",
     "\\ud81b", "\\ude56", "\\ude76", "\\ud81b", "\\ude57", "\\ude77",
     "\\ud81b", "\\ude58", "\\ude78", "\\ud81b", "\\ude59", "\\ude79",
     "\\ud81b", "\\ude5a", "\\ude7a", "\\ud81b", "\\ude5b", "\\ude7b",
     "\\ud81b", "\\ude5c", "\\ude7c", "\\ud81b", "\\ude5d", "\\ude7d",
     "\\ud81b", "\\ude5e", "\\ude7e", "\\ud81b", "\\ude5f", "\\ude7f",
     "\\ud81b", "\\udea0", "\\udebb", "\\ud81b", "\\udea1", "\\udebc",
     "\\ud81b", "\\udea2", "\\udebd", "\\ud81b", "\\udea3", "\\udebe",
     "\\ud81b", "\\udea4", "\\udebf", "\\ud81b", "\\udea5", "\\udec0",
     "\\ud81b", "\\udea6", "\\udec1", "\\ud81b", "\\udea7", "\\udec2",
     "\\ud81b", "\\udea8", "\\udec3", "\\ud81b", "\\udea9", "\\udec4",
     "\\ud81b", "\\udeaa", "\\udec5", "\\ud81b", "\\udeab", "\\udec6",
     "\\ud81b", "\\udeac", "\\udec7", "\\ud81b", "\\udead", "\\udec8",
     "\\ud81b", "\\udeae", "\\udec9", "\\ud81b", "\\udeaf", "\\udeca",
     "\\ud81b", "\\udeb0", "\\udecb", "\\ud81b", "\\udeb1", "\\udecc",
     "\\ud81b", "\\udeb2", "\\udecd", "\\ud81b", "\\udeb3", "\\udece",
     "\\ud81b", "\\udeb4", "\\udecf", "\\ud81b", "\\udeb5", "\\uded0",
     "\\ud81b", "\\udeb6", "\\uded1", "\\ud81b", "\\udeb7", "\\uded2",
     "\\ud81b", "\\udeb8", "\\uded3", "\\ud83a", "\\udd00", "\\udd22",
     "\\ud83a", "\\udd01", "\\udd23", "\\ud83a", "\\udd02", "\\udd24",
     "\\ud83a", "\\udd03", "\\udd25", "\\ud83a", "\\udd04", "\\udd26",
     "\\ud83a", "\\udd05", "\\udd27", "\\ud83a", "\\udd06", "\\udd28",
     "\\ud83a", "\\udd07", "\\udd29", "\\ud83a", "\\udd08", "\\udd2a",
     "\\ud83a", "\\udd09", "\\udd2b", "\\ud83a", "\\udd0a", "\\udd2c",
     "\\ud83a", "\\udd0b", "\\udd2d", "\\ud83a", "\\udd0c", "\\udd2e",
     "\\ud83a", "\\udd0d", "\\udd2f", "\\ud83a", "\\udd0e", "\\udd30",
     "\\ud83a", "\\udd0f", "\\udd31", "\\ud83a", "\\udd10", "\\udd32",
     "\\ud83a", "\\udd11", "\\udd33", "\\ud83a", "\\udd12", "\\udd34",
     "\\ud83a", "\\udd13", "\\udd35", "\\ud83a", "\\udd14", "\\udd36",
     "\\ud83a", "\\udd15", "\\udd37", "\\ud83a", "\\udd16", "\\udd38",
     "\\ud83a", "\\udd17", "\\udd39", "\\ud83a", "\\udd18", "\\udd3a",
     "\\ud83a", "\\udd19", "\\udd3b", "\\ud83a", "\\udd1a", "\\udd3c",
     "\\ud83a", "\\udd1b", "\\udd3d", "\\ud83a", "\\udd1c", "\\udd3e",
     "\\ud83a", "\\udd1d", "\\udd3f", "\\ud83a", "\\udd1e", "\\udd40",
     "\\ud83a", "\\udd1f", "\\udd41", "\\ud83a", "\\udd20", "\\udd42",
     "\\ud83a", "\\udd21", "\\udd43">>

\* The code units that are cased letters (Unicode property Cased) and not
\* case-ignorable: the context of a final sigma.
CasedUnits ==
    {"A", "B", "C", "D", "E", "F", "G", "H", "I", "J", "K", "L", "M", "N",
     "O", "P", "Q", "R", "S", "T", "U", "V", "W", "X", "Y", "Z", "a", "b",
     "c", "d", "e", "f", "g", "h", "i", "j", "k", "l", "m", "n", "o", "p",
     "q", "r", "s", "t", "u", "v", "w", "x", "y", "z", "ª", "µ", "º", "À",
     "Á", "Â", "Ã", "Ä", "Å", "Æ", "Ç", "È", "É", "Ê", "Ë", "Ì", "Í", "Î",
     "Ï", "Ð", "Ñ", "Ò", "Ó", "Ô", "Õ", "Ö", "Ø", "Ù", "Ú", "Û", "Ü", "Ý",
     "Þ", "ß", "à", "á", "â", "ã", "ä", "å", "æ", "ç", "è", "é", "ê", "ë",
     "ì", "í", "î", "ï", "ð", "ñ", "ò", "ó", "ô", "õ", "ö", "ø", "ù", "ú",
     "û", "ü", "ý", "þ", "ÿ", "\\u0100", "\\u0101", "\\u0102", "\\u0103",
     "\\u0104", "\\u0105", "\\u0106", "\\u0107", "\\u0108", "\\u0109",
     "\\u010a", "\\u010b", "\\u010c", "\\u010d", "\\u010e", "\\u010f",
     "\\u0110", "\\u0111", "\\u0112", "\\u0113", "\\u0114", "\\u0115",
     "\\u0116", "\\u0117", "\\u0118", "\\u0119", "\\u011a", "\\u011b",
     "\\u011c", "\\u011d", "\\u011e", "\\u011f", "\\u0120", "\\u0121",
     "\\u0122", "\\u0123", "\\u0124", "\\u0125", "\\u0126", "\\u0127",
     "\\u0128", "\\u0129", "\\u012a", "\\u012b", "\\u012c", "\\u012d",
     "\\u012e", "\\u012f", "\\u0130", "\\u0131", "\\u0132", "\\u0133",
     "\\u0134", "\\u0135", "\\u0136", "\\u0137", "\\u0138", "\\u0139",
     "\\u013a", "\\u013b", "\\u013c", "\\u013d", "\\u013e", "\\u013f",
     "\\u0140", "\\u0141", "\\u0142", "\\u0143", "\\u0144", "\\u0145",
     "\\u0146", "\\u0147", "\\u0148", "\\u0149", "\\u014a", "\\u014b",
     "\\u014c", "\\u014d", "\\u014e", "\\u014f", "\\u0150", "\\u0151",
     "\\u0152", "\\u0153", "\\u0154", "\\u0155", "\\u0156", "\\u0157",
     "\\u0158", "\\u0159", "\\u015a", "\\u015b", "\\u015c", "\\u015d",
     "\\u015e", "\\u015f", "\\u0160", "\\u0161", "\\u0162", "\\u0163",
     "\\u0164", "\\u0165", "\\u0166", "\\u0167", "\\u0168", "\\u0169",
     "\\u016a", "\\u016b", "\\u016c", "\\u016d", "\\u016e", "\\u016f",
     "\\u0170", "\\u0171", "\\u0172", "\\u0173", "\\u0174", "\\u0175",
     "\\u0176", "\\u0177", "\\u0178", "\\u0179", "\\u017a", "\\u017b",
     "\\u017c", "\\u017d", "\\u017e", "\\u017f", "\\u0180", "\\u0181",
     "\\u0182", "\\u0183", "\\u0184", "\\u0185", "\\u0186", "\\u0187",
     "\\u0188", "\\u0189", "\\u018a", "\\u018b", "\\u018c", "\\u018d",
     "\\u018e", "\\u018f", "\\u0190", "\\u0191", "\\u0192", "\\u0193",
     "\\u0194", "\\u0195", "\\u0196", "\\u0197", "\\u0198", "\\u0199",
     "\\u019a", "\\u019b", "\\u019c", "\\u019d", "\\u019e", "\\u019f",
     "\\u01a0", "\\u01a1", "\\u01a2", "\\u01a3", "\\u01a4", "\\u01a5",
     "\\u01a6", "\\u01a7", "\\u01a8", "\\u01a9", "\\u01aa", "\\u01ab",
     "\\u01ac", "\\u01ad", "\\u01ae", "\\u01af", "\\u01b0", "\\u01b1",
     "\\u01b2", "\\u01b3", "\\u01b4", "\\u01b5", "\\u01b6", "\\u01b7",
     "\\u01b8", "\\u01b9", "\\u01ba", "\\u01bc", "\\u01bd", "\\u01be",
     "\\u01bf", "\\u01c4", "\\u01c5", "\\u01c6", "\\u01c7", "\\u01c8",
     "\\u01c9", "\\u01ca", "\\u01cb", "\\u01cc", "\\u01cd", "\\u01ce",
     "\\u01cf", "\\u01d0", "\\u01d1", "\\u01d2", "\\u01d3", "\\u01d4",
     "\\u01d5", "\\u01d6", "\\u01d7", "\\u01d8", "\\u01d9", "\\u01da",
     "\\u01db", "\\u01dc", "\\u01dd", "\\u01de", "\\u01df", "\\u01e0",
     "\\u01e1", "\\u01e2", "\\u01e3", "\\u01e4", "\\u01e5", "\\u01e6",
     "\\u01e7", "\\u01e8", "\\u01e9", "\\u01ea", "\\u01eb", "\\u01ec",
     "\\u01ed", "\\u01ee", "\\u01ef", "\\u01f0", "\\u01f1", "\\u01f2",
     "\\u01f3", "\\u01f4", "\\u01f5", "\\u01f6", "\\u01f7", "\\u01f8",
     "\\u01f9", "\\u01fa", "\\u01fb", "\\u01fc", "\\u01fd", "\\u01fe",
     "\\u01ff", "\\u0200", "\\u0201", "\\u0202", "\\u0203", "\\u0204",
     "\\u0205", "\\u0206", "\\u0207", "\\u0208", "\\u0209", "\\u020a",
     "\\u020b", "\\u020c", "\\u020d", "\\u020e", "\\u020f", "\\u0210",
     "\\u0211", "\\u0212", "\\u0213", "\\u0214", "\\u0215", "\\u0216",
     "\\u0217", "\\u0218", "\\u0219", "\\u021a", "\\u021b", "\\u021c",
     "\\u021d", "\\u021e", "\\u021f", "\\u0220", "\\u0221", "\\u0222",
     "\\u0223", "\\u0224", "\\u0225", "\\u0226", "\\u0227", "\\u0228",
     "\\u0229", "\\u022a", "\\u022b", "\\u022c", "\\u022d", "\\u022e",
     "\\u022f", "\\u0230", "\\u0231", "\\u0232", "\\u0233", "\\u0234",
     "\\u0235", "\\u0236", "\\u0237", "\\u0238", "\\u0239", "\\u023a",
     "\\u023b", "\\u023c", "\\u023d", "\\u023e", "\\u023f", "\\u0240",
     "\\u0241", "\\u0242", "\\u0243", "\\u0244", "\\u0245", "\\u0246",
     "\\u0247", "\\u0248", "\\u0249", "\\u024a", "\\u024b", "\\u024c",
     "\\u024d", "\\u024e", "\\u024f", "\\u0250", "\\u0251", "\\u0252",
     "\\u0253", "\\u0254", "\\u0255", "\\u0256", "\\u0257", "\\u0258",
     "\\u0259", "\\u025a", "\\u025b", "\\u025c", "\\u025d", "\\u025e",
     "\\u025f", "\\u0260", "\\u0261", "\\u0262", "\\u0263", "\\u0264",
     "\\u0265", "\\u0266", "\\u0267", "\\u0268", "\\u0269", "\\u026a",
     "\\u026b", "\\u026c", "\\u026d", "\\u026e", "\\u026f", "\\u0270",
     "\\u0271", "\\u0272", "\\u0273", "\\u0274", "\\u0275", "\\u0276",
     "\\u0277", "\\u0278", "\\u0279", "\\u027a", "\\u027b", "\\u027c",
     "\\u027d", "\\u027e", "\\u027f", "\\u0280", "\\u0281", "\\u0282",
     "\\u0283", "\\u0284", "\\u0285", "\\u0286", "\\u0287", "\\u0288",
     "\\u0289", "\\u028a", "\\u028b", "\\u028c", "\\u028d", "\\u028e",
     "\\u028f", "\\u0290", "\\u0291", "\\u0292", "\\u0293", "\\u0296",
     "\\u0297", "\\u0298", "\\u0299", "\\u029a", "\\u029b", "\\u029c",
     "\\u029d", "\\u029e", "\\u029f", "\\u02a0", "\\u02a1", "\\u02a2",
     "\\u02a3", "\\u02a4", "\\u02a5", "\\u02a6", "\\u02a7", "\\u02a8",
     "\\u02a9", "\\u02aa", "\\u02ab", "\\u02ac", "\\u02ad", "\\u02ae",
     "\\u02af", "\\u0370", "\\u0371", "\\u0372", "\\u0373", "\\u0376",
     "\\u0377", "\\u037b", "\\u037c", "\\u037d", "\\u037f", "\\u0386",
     "\\u0388", "\\u0389", "\\u038a", "\\u038c", "\\u038e", "\\u038f",
     "\\u0390", "\\u0391", "\\u0392", "\\u0393", "\\u0394", "\\u0395",
     "\\u0396", "\\u0397", "\\u0398", "\\u0399", "\\u039a", "\\u039b",
     "\\u039c", "\\u039d", "\\u039e", "\\u039f", "\\u03a0", "\\u03a1",
     "\\u03a3", "\\u03a4", "\\u03a5", "\\u03a6", "\\u03a7", "\\u03a8",
     "\\u03a9", "\\u03aa", "\\u03ab", "\\u03ac", "\\u03ad", "\\u03ae",
     "\\u03af", "\\u03b0", "\\u03b1", "\\u03b2", "\\u03b3", "\\u03b4",
     "\\u03b5", "\\u03b6", "\\u03b7", "\\u03b8", "\\u03b9", "\\u03ba",
     "\\u03bb", "\\u03bc", "\\u03bd", "\\u03be", "\\u03bf", "\\u03c0",
     "\\u03c1", "\\u03c2", "\\u03c3", "\\u03c4", "\\u03c5", "\\u03c6",
     "\\u03c7", "\\u03c8", "\\u03c9", "\\u03ca", "\\u03cb", "\\u03cc",
     "\\u03cd", "\\u03ce", "\\u03cf", "\\u03d0", "\\u03d1", "\\u03d2",
     "\\u03d3", "\\u03d4", "\\u03d5", "\\u03d6", "\\u03d7", "\\u03d8",
     "\\u03d9", "\\u03da", "\\u03db", "\\u03dc", "\\u03dd", "\\u03de",
     "\\u03df", "\\u03e0", "\\u03e1", "\\u03e2", "\\u03e3", "\\u03e4",
     "\\u03e5", "\\u03e6", "\\u03e7", "\\u03e8", "\\u03e9", "\\u03ea",
     "\\u03eb", "\\u03ec", "\\u03ed", "\\u03ee", "\\u03ef", "\\u03f0",
     "\\u03f1", "\\u03f2", "\\u03f3", "\\u03f4", "\\u03f5", "\\u03f7",
     "\\u03f8", "\\u03f9", "\\u03fa", "\\u03fb", "\\u03fc", "\\u03fd",
     "\\u03fe", "\\u03ff", "\\u0400", "\\u0401", "\\u0402", "\\u0403",
     "\\u0404", "\\u0405", "\\u0406", "\\u0407", "\\u0408", "\\u0409",
     "\\u040a", "\\u040b", "\\u040c", "\\u040d", "\\u040e", "\\u040f",
     "\\u0410", "\\u0411", "\\u0412", "\\u0413", "\\u0414", "\\u0415",
     "\\u0416", "\\u0417", "\\u0418", "\\u0419", "\\u041a", "\\u041b",
     "\\u041c", "\\u041d", "\\u041e", "\\u041f", "\\u0420", "\\u0421",
     "\\u0422", "\\u0423", "\\u0424", "\\u0425", "\\u0426", "\\u0427",
     "\\u0428", "\\u0429", "\\u042a", "\\u042b", "\\u042c", "\\u042d",
     "\\u042e", "\\u042f", "\\u0430", "\\u0431", "\\u0432", "\\u0433",
     "\\u0434", "\\u0435", "\\u0436", "\\u0437", "\\u0438", "\\u0439",
     "\\u043a", "\\u043b", "\\u043c", "\\u043d", "\\u043e", "\\u043f",
     "\\u0440", "\\u0441", "\\u0442", "\\u0443", "\\u0444", "\\u0445",
     "\\u0446", "\\u0447", "\\u0448", "\\u0449", "\\u044a", "\\u044b",
     "\\u044c", "\\u044d", "\\u044e", "\\u044f", "\\u0450", "\\u0451",
     "\\u0452", "\\u0453", "\\u0454", "\\u0455", "\\u0456", "\\u0457",
     "\\u0458", "\\u0459", "\\u045a", "\\u045b", "\\u045c", "\\u045d",
     "\\u045e", "\\u045f", "\\u0460", "\\u0461", "\\u0462", "\\u0463",
     "\\u0464", "\\u0465", "\\u0466", "\\u0467", "\\u0468", "\\u0469",
     "\\u046a", "\\u046b", "\\u046c", "\\u046d", "\\u046e", "\\u046f",
     "\\u0470", "\\u0471", "\\u0472", "\\u0473", "\\u0474", "\\u0475",
     "\\u0476", "\\u0477", "\\u0478", "\\u0479", "\\u047a", "\\u047b",
     "\\u047c", "\\u047d", "\\u047e", "\\u047f", "\\u0480", "\\u0481",
     "\\u048a", "\\u048b", "\\u048c", "\\u048d", "\\u048e", "\\u048f",
     "\\u0490", "\\u0491", "\\u0492", "\\u0493", "\\u0494", "\\u0495",
     "\\u0496", "\\u0497", "\\u0498", "\\u0499", "\\u049a", "\\u049b",
     "\\u049c", "\\u049d", "\\u049e", "\\u049f", "\\u04a0", "\\u04a1",
     "\\u04a2", "\\u04a3", "\\u04a4", "\\u04a5", "\\u04a6", "\\u04a7",
     "\\u04a8", "\\u04a9", "\\u04aa", "\\u04ab", "\\u04ac", "\\u04ad",
     "\\u04ae", "\\u04af", "\\u04b0", "\\u04b1", "\\u04b2", "\\u04b3",
     "\\u04b4", "\\u04b5", "\\u04b6", "\\u04b7", "\\u04b8", "\\u04b9",
     "\\u04ba", "\\u04bb", "\\u04bc", "\\u04bd", "\\u04be", "\\u04bf",
     "\\u04c0", "\\u04c1", "\\u04c2", "\\u04c3", "\\u04c4", "\\u04c5",
     "\\u04c6", "\\u04c7", "\\u04c8", "\\u04c9", "\\u04ca", "\\u04cb",
     "\\u04cc", "\\u04cd", "\\u04ce", "\\u04cf", "\\u04d0", "\\u04d1",
     "\\u04d2", "\\u04d3", "\\u04d4", "\\u04d5", "\\u04d6", "\\u04d7",
     "\\u04d8", "\\u04d9", "\\u04da", "\\u04db", "\\u04dc", "\\u04dd",
     "\\u04de", "\\u04df", "\\u04e0", "\\u04e1", "\\u04e2", "\\u04e3",
     "\\u04e4", "\\u04e5", "\\u04e6", "\\u04e7", "\\u04e8", "\\u04e9",
     "\\u04ea", "\\u04eb", "\\u04ec", "\\u04ed", "\\u04ee", "\\u04ef",
     "\\u04f0", "\\u04f1", "\\u04f2", "\\u04f3", "\\u04f4", "\\u04f5",
     "\\u04f6", "\\u04f7", "\\u04f8", "\\u04f9", "\\u04fa", "\\u04fb",
     "\\u04fc", "\\u04fd", "\\u04fe", "\\u04ff", "\\u0500", "\\u0501",
     "\\u0502", "\\u0503", "\\u0504", "\\u0505", "\\u0506", "\\u0507",
     "\\u0508", "\\u0509", "\\u050a", "\\u050b", "\\u050c", "\\u050d",
     "\\u050e", "\\u050f", "\\u0510", "\\u0511", "\\u0512", "\\u0513",
     "\\u0514", "\\u0515", "\\u0516", "\\u0517", "\\u0518", "\\u0519",
     "\\u051a", "\\u051b", "\\u051c", "\\u051d", "\\u051e", "\\u051f",
     "\\u0520", "\\u0521", "\\u0522", "\\u0523", "\\u0524", "\\u0525",
     "\\u0526", "\\u0527", "\\u0528", "\\u0529", "\\u052a", "\\u052b",
     "\\u052c", "\\u052d", "\\u052e", "\\u052f", "\\u0531", "\\u0532",
     "\\u0533", "\\u0534", "\\u0535", "\\u0536", "\\u0537", "\\u0538",
     "\\u0539", "\\u053a", "\\u053b", "\\u053c", "\\u053d", "\\u053e",
     "\\u053f", "\\u0540", "\\u0541", "\\u0542", "\\u0543", "\\u0544",
     "\\u0545", "\\u0546", "\\u0547", "\\u0548", "\\u0549", "\\u054a",
     "\\u054b", "\\u054c", "\\u054d", "\\u054e", "\\u054f", "\\u0550",
     "\\u0551", "\\u0552", "\\u0553", "\\u0554", "\\u0555", "\\u0556",
     "\\u0560", "\\u0561", "\\u0562", "\\u0563", "\\u0564", "\\u0565",
     "\\u0566", "\\u0567", "\\u0568", "\\u0569", "\\u056a", "\\u056b",
     "\\u056c", "\\u056d", "\\u056e", "\\u056f", "\\u0570", "\\u0571",
     "\\u0572", "\\u0573", "\\u0574", "\\u0575", "\\u0576", "\\u0577",
     "\\u0578", "\\u0579", "\\u057a", "\\u057b", "\\u057c", "\\u057d",
     "\\u057e", "\\u057f", "\\u0580", "\\u0581", "\\u0582", "\\u0583",
     "\\u0584", "\\u0585", "\\u0586", "\\u0587", "\\u0588", "\\u10a0",
     "\\u10a1", "\\u10a2", "\\u10a3", "\\u10a4", "\\u10a5", "\\u10a6",
     "\\u10a7", "\\u10a8", "\\u10a9", "\\u10aa", "\\u10ab", "\\u10ac",
     "\\u10ad", "\\u10ae", "\\u10af", "\\u10b0", "\\u10b1", "\\u10b2",
     "\\u10b3", "\\u10b4", "\\u10b5", "\\u10b6", "\\u10b7", "\\u10b8",
     "\\u10b9", "\\u10ba", "\\u10bb", "\\u10bc", "\\u10bd", "\\u10be",
     "\\u10bf", "\\u10c0", "\\u10c1", "\\u10c2", "\\u10c3", "\\u10c4",
     "\\u10c5", "\\u10c7", "\\u10cd", "\\u10d0", "\\u10d1", "\\u10d2",
     "\\u10d3", "\\u10d4", "\\u10d5", "\\u10d6", "\\u10d7", "\\u10d8",
     "\\u10d9", "\\u10da", "\\u10db", "\\u10dc", "\\u10dd", "\\u10de",
     "\\u10df", "\\u10e0", "\\u10e1", "\\u10e2", "\\u10e3", "\\u10e4",
     "\\u10e5", "\\u10e6", "\\u10e7", "\\u10e8", "\\u10e9", "\\u10ea",
     "\\u10eb", "\\u10ec", "\\u10ed", "\\u10ee", "\\u10ef", "\\u10f0",
     "\\u10f1", "\\u10f2", "\\u10f3", "\\u10f4", "\\u10f5", "\\u10f6",
     "\\u10f7", "\\u10f8", "\\u10f9", "\\u10fa", "\\u10fd", "\\u10fe",
     "\\u10ff", "\\u13a0", "\\u13a1", "\\u13a2", "\\u13a3", "\\u13a4",
     "\\u13a5", "\\u13a6", "\\u13a7", "\\u13a8", "\\u13a9", "\\u13aa",
     "\\u13ab", "\\u13ac", "\\u13ad", "\\u13ae", "\\u13af", "\\u13b0",
     "\\u13b1", "\\u13b2", "\\u13b3", "\\u13b4", "\\u13b5", "\\u13b6",
     "\\u13b7", "\\u13b8", "\\u13b9", "\\u13ba", "\\u13bb", "\\u13bc",
     "\\u13bd", "\\u13be", "\\u13bf", "\\u13c0", "\\u13c1", "\\u13c2",
     "\\u13c3", "\\u13c4", "\\u13c5", "\\u13c6", "\\u13c7", "\\u13c8",
     "\\u13c9", "\\u13ca", "\\u13cb", "\\u13cc", "\\u13cd", "\\u13ce",
     "\\u13cf", "\\u13d0", "\\u13d1", "\\u13d2", "\\u13d3", "\\u13d4",
     "\\u13d5", "\\u13d6", "\\u13d7", "\\u13d8", "\\u13d9", "\\u13da",
     "\\u13db", "\\u13dc", "\\u13dd", "\\u13de", "\\u13df", "\\u13e0",
     "\\u13e1", "\\u13e2", "\\u13e3", "\\u13e4", "\\u13e5", "\\u13e6",
     "\\u13e7", "\\u13e8", "\\u13e9", "\\u13ea", "\\u13eb", "\\u13ec",
     "\\u13ed", "\\u13ee", "\\u13ef", "\\u13f0", "\\u13f1", "\\u13f2",
     "\\u13f3", "\\u13f4", "\\u13f5", "\\u13f8", "\\u13f9", "\\u13fa",
     "\\u13fb", "\\u13fc", "\\u13fd", "\\u1c80", "\\u1c81", "\\u1c82",
     "\\u1c83", "\\u1c84", "\\u1c85", "\\u1c86", "\\u1c87", "\\u1c88",
     "\\u1c89", "\\u1c8a", "\\u1c90", "\\u1c91", "\\u1c92", "\\u1c93",
     "\\u1c94", "\\u1c95", "\\u1c96", "\\u1c97", "\\u1c98", "\\u1c99",
     "\\u1c9a", "\\u1c9b", "\\u1c9c", "\\u1c9d", "\\u1c9e", "\\u1c9f",
     "\\u1ca0", "\\u1ca1", "\\u1ca2", "\\u1ca3", "\\u1ca4", "\\u1ca5",
     "\\u1ca6", "\\u1ca7", "\\u1ca8", "\\u1ca9", "\\u1caa", "\\u1cab",
     "\\u1cac", "\\u1cad", "\\u1cae", "\\u1caf", "\\u1cb0", "\\u1cb1",
     "\\u1cb2", "\\u1cb3", "\\u1cb4", "\\u1cb5", "\\u1cb6", "\\u1cb7",
     "\\u1cb8", "\\u1cb9", "\\u1cba", "\\u1cbd", "\\u1cbe", "\\u1cbf",
     "\\u1d00", "\\u1d01", "\\u1d02", "\\u1d03", "\\u1d04", "\\u1d05",
     "\\u1d06", "\\u1d07", "\\u1d08", "\\u1d09", "\\u1d0a", "\\u1d0b",
     "\\u1d0c", "\\u1d0d", "\\u1d0e", "\\u1d0f", "\\u1d10", "\\u1d11",
     "\\u1d12", "\\u1d13", "\\u1d14", "\\u1d15", "\\u1d16", "\\u1d17",
     "\\u1d18", "\\u1d19", "\\u1d1a", "\\u1d1b", "\\u1d1c", "\\u1d1d",
     "\\u1d1e", "\\u1d1f", "\\u1d20", "\\u1d21", "\\u1d22", "\\u1d23",
     "\\u1d24", "\\u1d25", "\\u1d26", "\\u1d27", "\\u1d28", "\\u1d29",
     "\\u1d2a", "\\u1d2b", "\\u1d6b", "\\u1d6c", "\\u1d6d", "\\u1d6e",
     "\\u1d6f", "\\u1d70", "\\u1d71", "\\u1d72", "\\u1d73", "\\u1d74",
     "\\u1d75", "\\u1d76", "\\u1d77", "\\u1d79", "\\u1d7a", "\\u1d7b",
     "\\u1d7c", "\\u1d7d", "\\u1d7e", "\\u1d7f", "\\u1d80", "\\u1d81",
     "\\u1d82", "\\u1d83", "\\u1d84", "\\u1d85", "\\u1d86", "\\u1d87",
     "\\u1d88", "\\u1d89", "\\u1d8a", "\\u1d8b", "\\u1d8c", "\\u1d8d",
     "\\u1d8e", "\\u1d8f", "\\u1d90", "\\u1d91", "\\u1d92", "\\u1d93",
     "\\u1d94", "\\u1d95", "\\u1d96", "\\u1d97", "\\u1d98", "\\u1d99",
     "\\u1d9a", "\\u1e00", "\\u1e01", "\\u1e02", "\\u1e03", "\\u1e04",
     "\\u1e05", "\\u1e06", "\\u1e07", "\\u1e08", "\\u1e09", "\\u1e0a",
     "\\u1e0b", "\\u1e0c", "\\u1e0d", "\\u1e0e", "\\u1e0f", "\\u1e10",
     "\\u1e11", "\\u1e12", "\\u1e13", "\\u1e14", "\\u1e15", "\\u1e16",
     "\\u1e17", "\\u1e18", "\\u1e19", "\\u1e1a", "\\u1e1b", "\\u1e1c",
     "\\u1e1d", "\\u1e1e", "\\u1e1f", "\\u1e20", "\\u1e21", "\\u1e22",
     "\\u1e23", "\\u1e24", "\\u1e25", "\\u1e26", "\\u1e27", "\\u1e28",
     "\\u1e29", "\\u1e2a", "\\u1e2b", "\\u1e2c", "\\u1e2d", "\\u1e2e",
     "\\u1e2f", "\\u1e30", "\\u1e31", "\\u1e32", "\\u1e33", "\\u1e34",
     "\\u1e35", "\\u1e36", "\\u1e37", "\\u1e38", "\\u1e39", "\\u1e3a",
     "\\u1e3b", "\\u1e3c", "\\u1e3d", "\\u1e3e", "\\u1e3f", "\\u1e40",
     "\\u1e41", "\\u1e42", "\\u1e43", "\\u1e44", "\\u1e45", "\\u1e46",
     "\\u1e47", "\\u1e48", "\\u1e49", "\\u1e4a", "\\u1e4b", "\\u1e4c",
     "\\u1e4d", "\\u1e4e", "\\u1e4f", "\\u1e50", "\\u1e51", "\\u1e52",
     "\\u1e53", "\\u1e54", "\\u1e55", "\\u1e56", "\\u1e57", "\\u1e58",
     "\\u1e59", "\\u1e5a", "\\u1e5b", "\\u1e5c", "\\u1e5d", "\\u1e5e",
     "\\u1e5f", "\\u1e60", "\\u1e61", "\\u1e62", "\\u1e63", "\\u1e64",
     "\\u1e65", "\\u1e66", "\\u1e67", "\\u1e68", "\\u1e69", "\\u1e6a",
     "\\u1e6b", "\\u1e6c", "\\u1e6d", "\\u1e6e", "\\u1e6f", "\\u1e70",
     "\\u1e71", "\\u1e72", "\\u1e73", "\\u1e74", "\\u1e75", "\\u1e76",
     "\\u1e77", "\\u1e78", "\\u1e79", "\\u1e7a", "\\u1e7b", "\\u1e7c",
     "\\u1e7d", "\\u1e7e", "\\u1e7f", "\\u1e80", "\\u1e81", "\\u1e82",
     "\\u1e83", "\\u1e84", "\\u1e85", "\\u1e86", "\\u1e87", "\\u1e88",
     "\\u1e89", "\\u1e8a", "\\u1e8b", "\\u1e8c", "\\u1e8d", "\\u1e8e",
     "\\u1e8f", "\\u1e90", "\\u1e91", "\\u1e92", "\\u1e93", "\\u1e94",
     "\\u1e95", "\\u1e96", "\\u1e97", "\\u1e98", "\\u1e99", "\\u1e9a",
     "\\u1e9b", "\\u1e9c", "\\u1e9d", "\\u1e9e", "\\u1e9f", "\\u1ea0",
     "\\u1ea1", "\\u1ea2", "\\u1ea3", "\\u1ea4", "\\u1ea5", "\\u1ea6",
     "\\u1ea7", "\\u1ea8", "\\u1ea9", "\\u1eaa", "\\u1eab", "\\u1eac",
     "\\u1ead", "\\u1eae", "\\u1eaf", "\\u1eb0", "\\u1eb1", "\\u1eb2",
     "\\u1eb3", "\\u1eb4", "\\u1eb5", "\\u1eb6", "\\u1eb7", "\\u1eb8",
     "\\u1eb9", "\\u1eba", "\\u1ebb", "\\u1ebc", "\\u1ebd", "\\u1ebe",
     "\\u1ebf", "\\u1ec0", "\\u1ec1", "\\u1ec2", "\\u1ec3", "\\u1ec4",
     "\\u1ec5", "\\u1ec6", "\\u1ec7", "\\u1ec8", "\\u1ec9", "\\u1eca",
     "\\u1ecb", "\\u1ecc", "\\u1ecd", "\\u1ece", "\\u1ecf", "\\u1ed0",
     "\\u1ed1", "\\u1ed2", "\\u1ed3", "\\u1ed4", "\\u1ed5", "\\u1ed6",
     "\\u1ed7", "\\u1ed8", "\\u1ed9", "\\u1eda", "\\u1edb", "\\u1edc",
     "\\u1edd", "\\u1ede", "\\u1edf", "\\u1ee0", "\\u1ee1", "\\u1ee2",
     "\\u1ee3", "\\u1ee4", "\\u1ee5", "\\u1ee6", "\\u1ee7", "\\u1ee8",
     "\\u1ee9", "\\u1eea", "\\u1eeb", "\\u1eec", "\\u1eed", "\\u1eee",
     "\\u1eef", "\\u1ef0", "\\u1ef1", "\\u1ef2", "\\u1ef3", "\\u1ef4",
     "\\u1ef5", "\\u1ef6", "\\u1ef7", "\\u1ef8", "\\u1ef9", "\\u1efa",
     "\\u1efb", "\\u1efc", "\\u1efd", "\\u1efe", "\\u1eff", "\\u1f00",
     "\\u1f01", "\\u1f02", "\\u1f03", "\\u1f04", "\\u1f05", "\\u1f06",
     "\\u1f07", "\\u1f08", "\\u1f09", "\\u1f0a", "\\u1f0b", "\\u1f0c",
     "\\u1f0d", "\\u1f0e", "\\u1f0f", "\\u1f10", "\\u1f11", "\\u1f12",
     "\\u1f13", "\\u1f14", "\\u1f15", "\\u1f18", "\\u1f19", "\\u1f1a",
     "\\u1f1b", "\\u1f1c", "\\u1f1d", "\\u1f20", "\\u1f21", "\\u1f22",
     "\\u1f23", "\\u1f24", "\\u1f25", "\\u1f26", "\\u1f27", "\\u1f28",
     "\\u1f29", "\\u1f2a", "\\u1f2b", "\\u1f2c", "\\u1f2d", "\\u1f2e",
     "\\u1f2f", "\\u1f30", "\\u1f31", "\\u1f32", "\\u1f33", "\\u1f34",
     "\\u1f35", "\\u1f36", "\\u1f37", "\\u1f38", "\\u1f39", "\\u1f3a",
     "\\u1f3b", "\\u1f3c", "\\u1f3d", "\\u1f3e", "\\u1f3f", "\\u1f40",
     "\\u1f41", "\\u1f42", "\\u1f43", "\\u1f44", "\\u1f45", "\\u1f48",
     "\\u1f49", "\\u1f4a", "\\u1f4b", "\\u1f4c", "\\u1f4d", "\\u1f50",
     "\\u1f51", "\\u1f52", "\\u1f53", "\\u1f54", "\\u1f55", "\\u1f56",
     "\\u1f57", "\\u1f59", "\\u1f5b", "\\u1f5d", "\\u1f5f", "\\u1f60",
     "\\u1f61", "\\u1f62", "\\u1f63", "\\u1f64", "\\u1f65", "\\u1f66",
     "\\u1f67", "\\u1f68", "\\u1f69", "\\u1f6a", "\\u1f6b", "\\u1f6c",
     "\\u1f6d", "\\u1f6e", "\\u1f6f", "\\u1f70", "\\u1f71", "\\u1f72",
     "\\u1f73", "\\u1f74", "\\u1f75", "\\u1f76", "\\u1f77", "\\u1f78",
     "\\u1f79", "\\u1f7a", "\\u1f7b", "\\u1f7c", "\\u1f7d", "\\u1f80",
     "\\u1f81", "\\u1f82", "\\u1f83", "\\u1f84", "\\u1f85", "\\u1f86",
     "\\u1f87", "\\u1f88", "\\u1f89", "\\u1f8a", "\\u1f8b", "\\u1f8c",
     "\\u1f8d", "\\u1f8e", "\\u1f8f", "\\u1f90", "\\u1f91", "\\u1f92",
     "\\u1f93", "\\u1f94", "\\u1f95", "\\u1f96", "\\u1f97", "\\u1f98",
     "\\u1f99", "\\u1f9a", "\\u1f9b", "\\u1f9c", "\\u1f9d", "\\u1f9e",
     "\\u1f9f", "\\u1fa0", "\\u1fa1", "\\u1fa2", "\\u1fa3", "\\u1fa4",
     "\\u1fa5", "\\u1fa6", "\\u1fa7", "\\u1fa8", "\\u1fa9", "\\u1faa",
     "\\u1fab", "\\u1fac", "\\u1fad", "\\u1fae", "\\u1faf", "\\u1fb0",
     "\\u1fb1", "\\u1fb2", "\\u1fb3", "\\u1fb4", "\\u1fb6", "\\u1fb7",
     "\\u1fb8", "\\u1fb9", "\\u1fba", "\\u1fbb", "\\u1fbc", "\\u1fbe",
     "\\u1fc2", "\\u1fc3", "\\u1fc4", "\\u1fc6", "\\u1fc7", "\\u1fc8",
     "\\u1fc9", "\\u1fca", "\\u1fcb", "\\u1fcc", "\\u1fd0", "\\u1fd1",
     "\\u1fd2", "\\u1fd3", "\\u1fd6", "\\u1fd7", "\\u1fd8", "\\u1fd9",
     "\\u1fda", "\\u1fdb", "\\u1fe0", "\\u1fe1", "\\u1fe2", "\\u1fe3",
     "\\u1fe4", "\\u1fe5", "\\u1fe6", "\\u1fe7", "\\u1fe8", "\\u1fe9",
     "\\u1fea", "\\u1feb", "\\u1fec", "\\u1ff2", "\\u1ff3", "\\u1ff4",
     "\\u1ff6", "\\u1ff7", "\\u1ff8", "\\u1ff9", "\\u1ffa", "\\u1ffb",
     "\\u1ffc", "\\u2102", "\\u2107", "\\u210a", "\\u210b", "\\u210c",
     "\\u210d", "\\u210e", "\\u210f", "\\u2110", "\\u2111", "\\u2112",
     "\\u2113", "\\u2115", "\\u2119", "\\u211a", "\\u211b", "\\u211c",
     "\\u211d", "\\u2124", "\\u2126", "\\u2128", "\\u212a", "\\u212b",
     "\\u212c", "\\u212d", "\\u212f", "\\u2130", "\\u2131", "\\u2132",
     "\\u2133", "\\u2134", "\\u2139", "\\u213c", "\\u213d", "\\u213e",
     "\\u213f", "\\u2145", "\\u2146", "\\u2147", "\\u2148", "\\u2149",
     "\\u214e", "\\u2160", "\\u2161", "\\u2162", "\\u2163", "\\u2164",
     "\\u2165", "\\u2166", "\\u2167", "\\u2168", "\\u2169", "\\u216a",
     "\\u216b", "\\u216c", "\\u216d", "\\u216e", "\\u216f", "\\u2170",
     "\\u2171", "\\u2172", "\\u2173", "\\u2174", "\\u2175", "\\u2176",
     "\\u2177", "\\u2178", "\\u2179", "\\u217a", "\\u217b", "\\u217c",
     "\\u217d", "\\u217e", "\\u217f", "\\u2183", "\\u2184", "\\u24b6",
     "\\u24b7", "\\u24b8", "\\u24b9", "\\u24ba", "\\u24bb", "\\u24bc",
     "\\u24bd", "\\u24be", "\\u24bf", "\\u24c0", "\\u24c1", "\\u24c2",
     "\\u24c3", "\\u24c4", "\\u24c5", "\\u24c6", "\\u24c7", "\\u24c8",
     "\\u24c9", "\\u24ca", "\\u24cb", "\\u24cc", "\\u24cd", "\\u24ce",
     "\\u24cf", "\\u24d0", "\\u24d1", "\\u24d2", "\\u24d3", "\\u24d4",
     "\\u24d5", "\\u24d6", "\\u24d7", "\\u24d8", "\\u24d9", "\\u24da",
     "\\u24db", "\\u24dc", "\\u24dd", "\\u24de", "\\u24df", "\\u24e0",
     "\\u24e1", "\\u24e2", "\\u24e3", "\\u24e4", "\\u24e5", "\\u24e6",
     "\\u24e7", "\\u24e8", "\\u24e9", "\\u2c00", "\\u2c01", "\\u2c02",
     "\\u2c03", "\\u2c04", "\\u2c05", "\\u2c06", "\\u2c07", "\\u2c08",
     "\\u2c09", "\\u2c0a", "\\u2c0b", "\\u2c0c", "\\u2c0d", "\\u2c0e",
     "\\u2c0f", "\\u2c10", "\\u2c11", "\\u2c12", "\\u2c13", "\\u2c14",
     "\\u2c15", "\\u2c16", "\\u2c17", "\\u2c18", "\\u2c19", "\\u2c1a",
     "\\u2c1b", "\\u2c1c", "\\u2c1d", "\\u2c1e", "\\u2c1f", "\\u2c20",
     "\\u2c21", "\\u2c22", "\\u2c23", "\\u2c24", "\\u2c25", "\\u2c26",
     "\\u2c27", "\\u2c28", "\\u2c29", "\\u2c2a", "\\u2c2b", "\\u2c2c",
     "\\u2c2d", "\\u2c2e", "\\u2c2f", "\\u2c30", "\\u2c31", "\\u2c32",
     "\\u2c33", "\\u2c34", "\\u2c35", "\\u2c36", "\\u2c37", "\\u2c38",
     "\\u2c39", "\\u2c3a", "\\u2c3b", "\\u2c3c", "\\u2c3d", "\\u2c3e",
     "\\u2c3f", "\\u2c40", "\\u2c41", "\\u2c42", "\\u2c43", "\\u2c44",
     "\\u2c45", "\\u2c46", "\\u2c47", "\\u2c48", "\\u2c49", "\\u2c4a",
     "\\u2c4b", "\\u2c4c", "\\u2c4d", "\\u2c4e", "\\u2c4f", "\\u2c50",
     "\\u2c51", "\\u2c52", "\\u2c53", "\\u2c54", "\\u2c55", "\\u2c56",
     "\\u2c57", "\\u2c58", "\\u2c59", "\\u2c5a", "\\u2c5b", "\\u2c5c",
     "\\u2c5d", "\\u2c5e", "\\u2c5f", "\\u2c60", "\\u2c61", "\\u2c62",
     "\\u2c63", "\\u2c64", "\\u2c65", "\\u2c66", "\\u2c67", "\\u2c68",
     "\\u2c69", "\\u2c6a", "\\u2c6b", "\\u2c6c", "\\u2c6d", "\\u2c6e",
     "\\u2c6f", "\\u2c70", "\\u2c71", "\\u2c72", "\\u2c73", "\\u2c74",
     "\\u2c75", "\\u2c76", "\\u2c77", "\\u2c78", "\\u2c79", "\\u2c7a",
     "\\u2c7b", "\\u2c7e", "\\u2c7f", "\\u2c80", "\\u2c81", "\\u2c82",
     "\\u2c83", "\\u2c84", "\\u2c85", "\\u2c86", "\\u2c87", "\\u2c88",
     "\\u2c89", "\\u2c8a", "\\u2c8b", "\\u2c8c", "\\u2c8d", "\\u2c8e",
     "\\u2c8f", "\\u2c90", "\\u2c91", "\\u2c92", "\\u2c93", "\\u2c94",
     "\\u2c95", "\\u2c96", "\\u2c97", "\\u2c98", "\\u2c99", "\\u2c9a",
     "\\u2c9b", "\\u2c9c", "\\u2c9d", "\\u2c9e", "\\u2c9f", "\\u2ca0",
     "\\u2ca1", "\\u2ca2", "\\u2ca3", "\\u2ca4", "\\u2ca5", "\\u2ca6",
     "\\u2ca7", "\\u2ca8", "\\u2ca9", "\\u2caa", "\\u2cab", "\\u2cac",
     "\\u2cad", "\\u2cae", "\\u2caf", "\\u2cb0", "\\u2cb1", "\\u2cb2",
     "\\u2cb3", "\\u2cb4", "\\u2cb5", "\\u2cb6", "\\u2cb7", "\\u2cb8",
     "\\u2cb9", "\\u2cba", "\\u2cbb", "\\u2cbc", "\\u2cbd", "\\u2cbe",
     "\\u2cbf", "\\u2cc0", "\\u2cc1", "\\u2cc2", "\\u2cc3", "\\u2cc4",
     "\\u2cc5", "\\u2cc6", "\\u2cc7", "\\u2cc8", "\\u2cc9", "\\u2cca",
     "\\u2ccb", "\\u2ccc", "\\u2ccd", "\\u2cce", "\\u2ccf", "\\u2cd0",
     "\\u2cd1", "\\u2cd2", "\\u2cd3", "\\u2cd4", "\\u2cd5", "\\u2cd6",
     "\\u2cd7", "\\u2cd8", "\\u2cd9", "\\u2cda", "\\u2cdb", "\\u2cdc",
     "\\u2cdd", "\\u2cde", "\\u2cdf", "\\u2ce0", "\\u2ce1", "\\u2ce2",
     "\\u2ce3", "\\u2ce4", "\\u2ceb", "\\u2cec", "\\u2ced", "\\u2cee",
     "\\u2cf2", "\\u2cf3", "\\u2d00", "\\u2d01", "\\u2d02", "\\u2d03",
     "\\u2d04", "\\u2d05", "\\u2d06", "\\u2d07", "\\u2d08", "\\u2d09",
     "\\u2d0a", "\\u2d0b", "\\u2d0c", "\\u2d0d", "\\u2d0e", "\\u2d0f",
     "\\u2d10", "\\u2d11", "\\u2d12", "\\u2d13", "\\u2d14", "\\u2d15",
     "\\u2d16", "\\u2d17", "\\u2d18", "\\u2d19", "\\u2d1a", "\\u2d1b",
     "\\u2d1c", "\\u2d1d", "\\u2d1e", "\\u2d1f", "\\u2d20", "\\u2d21",
     "\\u2d22", "\\u2d23", "\\u2d24", "\\u2d25", "\\u2d27", "\\u2d2d",
     "\\ua640", "\\ua641", "\\ua642", "\\ua643", "\\ua644", "\\ua645",
     "\\ua646", "\\ua647", "\\ua648", "\\ua649", "\\ua64a", "\\ua64b",
     "\\ua64c", "\\ua64d", "\\ua64e", "\\ua64f", "\\ua650", "\\ua651",
     "\\ua652", "\\ua653", "\\ua654", "\\ua655", "\\ua656", "\\ua657",
     "\\ua658", "\\ua659", "\\ua65a", "\\ua65b", "\\ua65c", "\\ua65d",
     "\\ua65e", "\\ua65f", "\\ua660", "\\ua661", "\\ua662", "\\ua663",
     "\\ua664", "\\ua665", "\\ua666", "\\ua667", "\\ua668", "\\ua669",
     "\\ua66a", "\\ua66b", "\\ua66c", "\\ua66d", "\\ua680", "\\ua681",
     "\\ua682", "\\ua683", "\\ua684", "\\ua685", "\\ua686", "\\ua687",
     "\\ua688", "\\ua689", "\\ua68a", "\\ua68b", "\\ua68c", "\\ua68d",
     "\\ua68e", "\\ua68f", "\\ua690", "\\ua691", "\\ua692", "\\ua693",
     "\\ua694", "\\ua695", "\\ua696", "\\ua697", "\\ua698", "\\ua699",
     "\\ua69a", "\\ua69b", "\\ua722", "\\ua723", "\\ua724", "\\ua725",
     "\\ua726", "\\ua727", "\\ua728", "\\ua729", "\\ua72a", "\\ua72b",
     "\\ua72c", "\\ua72d", "\\ua72e", "\\ua72f", "\\ua730", "\\ua731",
     "\\ua732", "\\ua733", "\\ua734", "\\ua735", "\\ua736", "\\ua737",
     "\\ua738", "\\ua739", "\\ua73a", "\\ua73b", "\\ua73c", "\\ua73d",
     "\\ua73e", "\\ua73f", "\\ua740", "\\ua741", "\\ua742", "\\ua743",
     "\\ua744", "\\ua745", "\\ua746", "\\ua747", "\\ua748", "\\ua749",
     "\\ua74a", "\\ua74b", "\\ua74c", "\\ua74d", "\\ua74e", "\\ua74f",
     "\\ua750", "\\ua751", "\\ua752", "\\ua753", "\\ua754", "\\ua755",
     "\\ua756", "\\ua757", "\\ua758", "\\ua759", "\\ua75a", "\\ua75b",
     "\\ua75c", "\\ua75d", "\\ua75e", "\\ua75f", "\\ua760", "\\ua761",
     "\\ua762", "\\ua763", "\\ua764", "\\ua765", "\\ua766", "\\ua767",
     "\\ua768", "\\ua769", "\\ua76a", "\\ua76b", "\\ua76c", "\\ua76d",
     "\\ua76e", "\\ua76f", "\\ua771", "\\ua772", "\\ua773", "\\ua774",
     "\\ua775", "\\ua776", "\\ua777", "\\ua778", "\\ua779", "\\ua77a",
     "\\ua77b", "\\ua77c", "\\ua77d", "\\ua77e", "\\ua77f", "\\ua780",
     "\\ua781", "\\ua782", "\\ua783", "\\ua784", "\\ua785", "\\ua786",
     "\\ua787", "\\ua78b", "\\ua78c", "\\ua78d", "\\ua78e", "\\ua790",
     "\\ua791", "\\ua792", "\\ua793", "\\ua794", "\\ua795", "\\ua796",
     "\\ua797", "\\ua798", "\\ua799", "\\ua79a", "\\ua79b", "\\ua79c",
     "\\ua79d", "\\ua79e", "\\ua79f", "\\ua7a0", "\\ua7a1", "\\ua7a2",
     "\\ua7a3", "\\ua7a4", "\\ua7a5", "\\ua7a6", "\\ua7a7", "\\ua7a8",
     "\\ua7a9", "\\ua7aa", "\\ua7ab", "\\ua7ac", "\\ua7ad", "\\ua7ae",
     "\\ua7af", "\\ua7b0", "\\ua7b1", "\\ua7b2", "\\ua7b3", "\\ua7b4",
     "\\ua7b5", "\\ua7b6", "\\ua7b7", "\\ua7b8", "\\ua7b9", "\\ua7ba",
     "\\ua7bb", "\\ua7bc", "\\ua7bd", "\\ua7be", "\\ua7bf", "\\ua7c0",
     "\\ua7c1", "\\ua7c2", "\\ua7c3", "\\ua7c4", "\\ua7c5", "\\ua7c6",
     "\\ua7c7", "\\ua7c8", "\\ua7c9", "\\ua7ca", "\\ua7cb", "\\ua7cc",
     "\\ua7cd", "\\ua7ce", "\\ua7cf", "\\ua7d0", "\\ua7d1", "\\ua7d2",
     "\\ua7d3", "\\ua7d4", "\\ua7d5", "\\ua7d6", "\\ua7d7", "\\ua7d8",
     "\\ua7d9", "\\ua7da", "\\ua7db", "\\ua7dc", "\\ua7f5", "\\ua7f6",
     "\\ua7fa", "\\uab30", "\\uab31", "\\uab32", "\\uab33", "\\uab34",
     "\\uab35", "\\uab36", "\\uab37", "\\uab38", "\\uab39", "\\uab3a",
     "\\uab3b", "\\uab3c", "\\uab3d", "\\uab3e", "\\uab3f", "\\uab40",
     "\\uab41", "\\uab42", "\\uab43", "\\uab44", "\\uab45", "\\uab46",
     "\\uab47", "\\uab48", "\\uab49", "\\uab4a", "\\uab4b", "\\uab4c",
     "\\uab4d", "\\uab4e", "\\uab4f", "\\uab50", "\\uab51", "\\uab52",
     "\\uab53", "\\uab54", "\\uab55", "\\uab56", "\\uab57", "\\uab58",
     "\\uab59", "\\uab5a", "\\uab60", "\\uab61", "\\uab62", "\\uab63",
     "\\uab64", "\\uab65", "\\uab66", "\\uab67", "\\uab68", "\\uab70",
     "\\uab71", "\\uab72", "\\uab73", "\\uab74", "\\uab75", "\\uab76",
     "\\uab77", "\\uab78", "\\uab79", "\\uab7a", "\\uab7b", "\\uab7c",
     "\\uab7d", "\\uab7e", "\\uab7f", "\\uab80", "\\uab81", "\\uab82",
     "\\uab83", "\\uab84", "\\uab85", "\\uab86", "\\uab87", "\\uab88",
     "\\uab89", "\\uab8a", "\\uab8b", "\\uab8c", "\\uab8d", "\\uab8e",
     "\\uab8f", "\\uab90", "\\uab91", "\\uab92", "\\uab93", "\\uab94",
     "\\uab95", "\\uab96", "\\uab97", "\\uab98", "\\uab99", "\\uab9a",
     "\\uab9b", "\\uab9c", "\\uab9d", "\\uab9e", "\\uab9f", "\\uaba0",
     "\\uaba1", "\\uaba2", "\\uaba3", "\\uaba4", "\\uaba5", "\\uaba6",
     "\\uaba7", "\\uaba8", "\\uaba9", "\\uabaa", "\\uabab", "\\uabac",
     "\\uabad", "\\uabae", "\\uabaf", "\\uabb0", "\\uabb1", "\\uabb2",
     "\\uabb3", "\\uabb4", "\\uabb5", "\\uabb6", "\\uabb7", "\\uabb8",
     "\\uabb9", "\\uabba", "\\uabbb", "\\uabbc", "\\uabbd", "\\uabbe",
     "\\uabbf", "\\ufb00", "\\ufb01", "\\ufb02", "\\ufb03", "\\ufb04",
     "\\ufb05", "\\ufb06", "\\ufb13", "\\ufb14", "\\ufb15", "\\ufb16",
     "\\ufb17", "\\uff21", "\\uff22", "\\uff23", "\\uff24", "\\uff25",
     "\\uff26", "\\uff27", "\\uff28", "\\uff29", "\\uff2a", "\\uff2b",
     "\\uff2c", "\\uff2d", "\\uff2e", "\\uff2f", "\\uff30", "\\uff31",
     "\\uff32", "\\uff33", "\\uff34", "\\uff35", "\\uff36", "\\uff37",
     "\\uff38", "\\uff39", "\\uff3a", "\\uff41", "\\uff42", "\\uff43",
     "\\uff44", "\\uff45", "\\uff46", "\\uff47", "\\uff48", "\\uff49",
     "\\uff4a", "\\uff4b", "\\uff4c", "\\uff4d", "\\uff4e", "\\uff4f",
     "\\uff50", "\\uff51", "\\uff52", "\\uff53", "\\uff54", "\\uff55",
     "\\uff56", "\\uff57", "\\uff58", "\\uff59", "\\uff5a"}

\* The surrogate pairs that are cased letters and not case-ignorable: the
\* high surrogate and the low surrogate, two entries for a pair.
CasedSurrogateList ==
    <<"\\ud801", "\\udc00", "\\ud801", "\\udc01", "\\ud801", "\\udc02",
     "\\ud801", "\\udc03", "\\ud801", "\\udc04", "\\ud801", "\\udc05",
     "\\ud801", "\\udc06", "\\ud801", "\\udc07", "\\ud801", "\\udc08",
     "\\ud801", "\\udc09", "\\ud801", "\\udc0a", "\\ud801", "\\udc0b",
     "\\ud801", "\\udc0c", "\\ud801", "\\udc0d", "\\ud801", "\\udc0e",
     "\\ud801", "\\udc0f", "\\ud801", "\\udc10", "\\ud801", "\\udc11",
     "\\ud801", "\\udc12", "\\ud801", "\\udc13", "\\ud801", "\\udc14",
     "\\ud801", "\\udc15", "\\ud801", "\\udc16", "\\ud801", "\\udc17",
     "\\ud801", "\\udc18", "\\ud801", "\\udc19", "\\ud801", "\\udc1a",
     "\\ud801", "\\udc1b", "\\ud801", "\\udc1c", "\\ud801", "\\udc1d",
     "\\ud801", "\\udc1e", "\\ud801", "\\udc1f", "\\ud801", "\\udc20",
     "\\ud801", "\\udc21", "\\ud801", "\\udc22", "\\ud801", "\\udc23",
     "\\ud801", "\\udc24", "\\ud801", "\\udc25", "\\ud801", "\\udc26",
     "\\ud801", "\\udc27", "\\ud801", "\\udc28", "\\ud801", "\\udc29",
     "\\ud801", "\\udc2a", "\\ud801", "\\udc2b", "\\ud801", "\\udc2c",
     "\\ud801", "\\udc2d", "\\ud801", "\\udc2e", "\\ud801", "\\udc2f",
     "\\ud801", "\\udc30", "\\ud801", "\\udc31", "\\ud801", "\\udc32",
     "\\ud801", "\\udc33", "\\ud801", "\\udc34", "\\ud801", "\\udc35",
     "\\ud801", "\\udc36", "\\ud801", "\\udc37", "\\ud801", "\\udc38",
     "\\ud801", "\\udc39", "\\ud801", "\\udc3a", "\\ud801", "\\udc3b",
     "\\ud801", "\\udc3c", "\\ud801", "\\udc3d", "\\ud801", "\\udc3e",
     "\\ud801", "\\udc3f", "\\ud801", "\\udc40", "\\ud801", "\\udc41",
     "\\ud801", "\\udc42", "\\ud801", "\\udc43", "\\ud801", "\\udc44",
     "\\ud801", "\\udc45", "\\ud801", "\\udc46", "\\ud801", "\\udc47",
     "\\ud801", "\\udc48", "\\ud801", "\\udc49", "\\ud801", "\\udc4a",
     "\\ud801", "\\udc4b", "\\ud801", "\\udc4c", "\\ud801", "\\udc4d",
     "\\ud801", "\\udc4e", "\\ud801", "\\udc4f", "\\ud801", "\\udcb0",
     "\\ud801", "\\udcb1", "\\ud801", "\\udcb2", "\\ud801", "\\udcb3",
     "\\ud801", "\\udcb4", "\\ud801", "\\udcb5", "\\ud801", "\\udcb6",
     "\\ud801", "\\udcb7", "\\ud801", "\\udcb8", "\\ud801", "\\udcb9",
     "\\ud801", "\\udcba", "\\ud801", "\\udcbb", "\\ud801", "\\udcbc",
     "\\ud801", "\\udcbd", "\\ud801", "\\udcbe", "\\ud801", "\\udcbf",
     "\\ud801", "\\udcc0", "\\ud801", "\\udcc1", "\\ud801", "\\udcc2",
     "\\ud801", "\\udcc3", "\\ud801", "\\udcc4", "\\ud801", "\\udcc5",
     "\\ud801", "\\udcc6", "\\ud801", "\\udcc7", "\\ud801", "\\udcc8",
     "\\ud801", "\\udcc9", "\\ud801", "\\udcca", "\\ud801", "\\udccb",
     "\\ud801", "\\udccc", "\\ud801", "\\udccd", "\\ud801", "\\udcce",
     "\\ud801", "\\udccf", "\\ud801", "\\udcd0", "\\ud801", "\\udcd1",
     "\\ud801", "\\udcd2", "\\ud801", "\\udcd3", "\\ud801", "\\udcd8",
     "\\ud801", "\\udcd9", "\\ud801", "\\udcda", "\\ud801", "\\udcdb",
     "\\ud801", "\\udcdc", "\\ud801", "\\udcdd", "\\ud801", "\\udcde",
     "\\ud801", "\\udcdf", "\\ud801", "\\udce0", "\\ud801", "\\udce1",
     "\\ud801", "\\udce2", "\\ud801", "\\udce3", "\\ud801", "\\udce4",
     "\\ud801", "\\udce5", "\\ud801", "\\udce6", "\\ud801", "\\udce7",
     "\\ud801", "\\udce8", "\\ud801", "\\udce9", "\\ud801", "\\udcea",
     "\\ud801", "\\udceb", "\\ud801", "\\udcec", "\\ud801", "\\udced",
     "\\ud801", "\\udcee", "\\ud801", "\\udcef", "\\ud801", "\\udcf0",
     "\\ud801", "\\udcf1", "\\ud801", "\\udcf2", "\\ud801", "\\udcf3",
     "\\ud801", "\\udcf4", "\\ud801", "\\udcf5", "\\ud801", "\\udcf6",
     "\\ud801", "\\udcf7", "\\ud801", "\\udcf8", "\\ud801", "\\udcf9",
     "\\ud801", "\\udcfa", "\\ud801", "\\udcfb", "\\ud801", "\\udd70",
     "\\ud801", "\\udd71", "\\ud801", "\\udd72", "\\ud801", "\\udd73",
     "\\ud801", "\\udd74", "\\ud801", "\\udd75", "\\ud801", "\\udd76",
     "\\ud801", "\\udd77", "\\ud801", "\\udd78", "\\ud801", "\\udd79",
     "\\ud801", "\\udd7a", "\\ud801", "\\udd7c", "\\ud801", "\\udd7d",
     "\\ud801", "\\udd7e", "\\ud801", "\\udd7f", "\\ud801", "\\udd80",
     "\\ud801", "\\udd81", "\\ud801", "\\udd82", "\\ud801", "\\udd83",
     "\\ud801", "\\udd84", "\\ud801", "\\udd85", "\\ud801", "\\udd86",
     "\\ud801", "\\udd87", "\\ud801", "\\udd88", "\\ud801", "\\udd89",
     "\\ud801", "\\udd8a", "\\ud801", "\\udd8c", "\\ud801", "\\udd8d",
     "\\ud801", "\\udd8e", "\\ud801", "\\udd8f", "\\ud801", "\\udd90",
     "\\ud801", "\\udd91", "\\ud801", "\\udd92", "\\ud801", "\\udd94",
     "\\ud801", "\\udd95", "\\ud801", "\\udd97", "\\ud801", "\\udd98",
     "\\ud801", "\\udd99", "\\ud801", "\\udd9a", "\\ud801", "\\udd9b",
     "\\ud801", "\\udd9c", "\\ud801", "\\udd9d", "\\ud801", "\\udd9e",
     "\\ud801", "\\udd9f", "\\ud801", "\\udda0", "\\ud801", "\\udda1",
     "\\ud801", "\\udda3", "\\ud801", "\\udda4", "\\ud801", "\\udda5",
     "\\ud801", "\\udda6", "\\ud801", "\\udda7", "\\ud801", "\\udda8",
     "\\ud801", "\\udda9", "\\ud801", "\\uddaa", "\\ud801", "\\uddab",
     "\\ud801", "\\uddac", "\\ud801", "\\uddad", "\\ud801", "\\uddae",
     "\\ud801", "\\uddaf", "\\ud801", "\\uddb0", "\\ud801", "\\uddb1",
     "\\ud801", "\\uddb3", "\\ud801", "\\uddb4", "\\ud801", "\\uddb5",
     "\\ud801", "\\uddb6", "\\ud801", "\\uddb7", "\\ud801", "\\uddb8",
     "\\ud801", "\\uddb9", "\\ud801", "\\uddbb", "\\ud801", "\\uddbc",
     "\\ud803", "\\udc80", "\\ud803", "\\udc81", "\\ud803", "\\udc82",
     "\\ud803", "\\udc83", "\\ud803", "\\udc84", "\\ud803", "\\udc85",
     "\\ud803", "\\udc86", "\\ud803", "\\udc87", "\\ud803", "\\udc88",
     "\\ud803", "\\udc89", "\\ud803", "\\udc8a", "\\ud803", "\\udc8b",
     "\\ud803", "\\udc8c", "\\ud803", "\\udc8d", "\\ud803", "\\udc8e",
     "\\ud803", "\\udc8f", "\\ud803", "\\udc90", "\\ud803", "\\udc91",
     "\\ud803", "\\udc92", "\\ud803", "\\udc93", "\\ud803", "\\udc94",
     "\\ud803", "\\udc95", "\\ud803", "\\udc96", "\\ud803", "\\udc97",
     "\\ud803", "\\udc98", "\\ud803", "\\udc99", "\\ud803", "\\udc9a",
     "\\ud803", "\\udc9b", "\\ud803", "\\udc9c", "\\ud803", "\\udc9d",
     "\\ud803", "\\udc9e", "\\ud803", "\\udc9f", "\\ud803", "\\udca0",
     "\\ud803", "\\udca1", "\\ud803", "\\udca2", "\\ud803", "\\udca3",
     "\\ud803", "\\udca4", "\\ud803", "\\udca5", "\\ud803", "\\udca6",
     "\\ud803", "\\udca7", "\\ud803", "\\udca8", "\\ud803", "\\udca9",
     "\\ud803", "\\udcaa", "\\ud803", "\\udcab", "\\ud803", "\\udcac",
     "\\ud803", "\\udcad", "\\ud803", "\\udcae", "\\ud803", "\\udcaf",
     "\\ud803", "\\udcb0", "\\ud803", "\\udcb1", "\\ud803", "\\udcb2",
     "\\ud803", "\\udcc0", "\\ud803", "\\udcc1", "\\ud803", "\\udcc2",
     "\\ud803", "\\udcc3", "\\ud803", "\\udcc4", "\\ud803", "\\udcc5",
     "\\ud803", "\\udcc6", "\\ud803", "\\udcc7", "\\ud803", "\\udcc8",
     "\\ud803", "\\udcc9", "\\ud803", "\\udcca", "\\ud803", "\\udccb",
     "\\ud803", "\\udccc", "\\ud803", "\\udccd", "\\ud803", "\\udcce",
     "\\ud803", "\\udccf", "\\ud803", "\\udcd0", "\\ud803", "\\udcd1",
     "\\ud803", "\\udcd2", "\\ud803", "\\udcd3", "\\ud803", "\\udcd4",
     "\\ud803", "\\udcd5", "\\ud803", "\\udcd6", "\\ud803", "\\udcd7",
     "\\ud803", "\\udcd8", "\\ud803", "\\udcd9", "\\ud803", "\\udcda",
     "\\ud803", "\\udcdb", "\\ud803", "\\udcdc", "\\ud803", "\\udcdd",
     "\\ud803", "\\udcde", "\\ud803", "\\udcdf", "\\ud803", "\\udce0",
     "\\ud803", "\\udce1", "\\ud803", "\\udce2", "\\ud803", "\\udce3",
     "\\ud803", "\\udce4", "\\ud803", "\\udce5", "\\ud803", "\\udce6",
     "\\ud803", "\\udce7", "\\ud803", "\\udce8", "\\ud803", "\\udce9",
     "\\ud803", "\\udcea", "\\ud803", "\\udceb", "\\ud803", "\\udcec",
     "\\ud803", "\\udced", "\\ud803", "\\udcee", "\\ud803", "\\udcef",
     "\\ud803", "\\udcf0", "\\ud803", "\\udcf1", "\\ud803", "\\udcf2",
     "\\ud803", "\\udd50", "\\ud803", "\\udd51", "\\ud803", "\\udd52",
     "\\ud803", "\\udd53", "\\ud803", "\\udd54", "\\ud803", "\\udd55",
     "\\ud803", "\\udd56", "\\ud803", "\\udd57", "\\ud803", "\\udd58",
     "\\ud803", "\\udd59", "\\ud803", "\\udd5a", "\\ud803", "\\udd5b",
     "\\ud803", "\\udd5c", "\\ud803", "\\udd5d", "\\ud803", "\\udd5e",
     "\\ud803", "\\udd5f", "\\ud803", "\\udd60", "\\ud803", "\\udd61",
     "\\ud803", "\\udd62", "\\ud803", "\\udd63", "\\ud803", "\\udd64",
     "\\ud803", "\\udd65", "\\ud803", "\\udd70", "\\ud803", "\\udd71",
     "\\ud803", "\\udd72", "\\ud803", "\\udd73", "\\ud803", "\\udd74",
     "\\ud803", "\\udd75", "\\ud803", "\\udd76", "\\ud803", "\\udd77",
     "\\ud803", "\\udd78", "\\ud803", "\\udd79", "\\ud803", "\\udd7a",
     "\\ud803", "\\udd7b", "\\ud803", "\\udd7c", "\\ud803", "\\udd7d",
     "\\ud803", "\\udd7e", "\\ud803", "\\udd7f", "\\ud803", "\\udd80",
     "\\ud803", "\\udd81", "\\ud803", "\\udd82", "\\ud803", "\\udd83",
     "\\ud803", "\\udd84", "\\ud803", "\\udd85", "\\ud806", "\\udca0",
     "\\ud806", "\\udca1", "\\ud806", "\\udca2", "\\ud806", "\\udca3",
     "\\ud806", "\\udca4", "\\ud806", "\\udca5", "\\ud806", "\\udca6",
     "\\ud806", "\\udca7", "\\ud806", "\\udca8", "\\ud806", "\\udca9",
     "\\ud806", "\\udcaa", "\\ud806", "\\udcab", "\\ud806", "\\udcac",
     "\\ud806", "\\udcad", "\\ud806", "\\udcae", "\\ud806", "\\udcaf",
     "\\ud806", "\\udcb0", "\\ud806", "\\udcb1", "\\ud806", "\\udcb2",
     "\\ud806", "\\udcb3", "\\ud806", "\\udcb4", "\\ud806", "\\udcb5",
     "\\ud806", "\\udcb6", "\\ud806", "\\udcb7", "\\ud806", "\\udcb8",
     "\\ud806", "\\udcb9", "\\ud806", "\\udcba", "\\ud806", "\\udcbb",
     "\\ud806", "\\udcbc", "\\ud806", "\\udcbd", "\\ud806", "\\udcbe",
     "\\ud806", "\\udcbf", "\\ud806", "\\udcc0", "\\ud806", "\\udcc1",
     "\\ud806", "\\udcc2", "\\ud806", "\\udcc3", "\\ud806", "\\udcc4",
     "\\ud806", "\\udcc5", "\\ud806", "\\udcc6", "\\ud806", "\\udcc7",
     "\\ud806", "\\udcc8", "\\ud806", "\\udcc9", "\\ud806", "\\udcca",
     "\\ud806", "\\udccb", "\\ud806", "\\udccc", "\\ud806", "\\udccd",
     "\\ud806", "\\udcce", "\\ud806", "\\udccf", "\\ud806", "\\udcd0",
     "\\ud806", "\\udcd1", "\\ud806", "\\udcd2", "\\ud806", "\\udcd3",
     "\\ud806", "\\udcd4", "\\ud806", "\\udcd5", "\\ud806", "\\udcd6",
     "\\ud806", "\\udcd7", "\\ud806", "\\udcd8", "\\ud806", "\\udcd9",
     "\\ud806", "\\udcda", "\\ud806", "\\udcdb", "\\ud806", "\\udcdc",
     "\\ud806", "\\udcdd", "\\ud806", "\\udcde", "\\ud806", "\\udcdf",
     "\\ud81b", "\\ude40", "\\ud81b", "\\ude41", "\\ud81b", "\\ude42",
     "\\ud81b", "\\ude43", "\\ud81b", "\\ude44", "\\ud81b", "\\ude45",
     "\\ud81b", "\\ude46", "\\ud81b", "\\ude47", "\\ud81b", "\\ude48",
     "\\ud81b", "\\ude49", "\\ud81b", "\\ude4a", "\\ud81b", "\\ude4b",
     "\\ud81b", "\\ude4c", "\\ud81b", "\\ude4d", "\\ud81b", "\\ude4e",
     "\\ud81b", "\\ude4f", "\\ud81b", "\\ude50", "\\ud81b", "\\ude51",
     "\\ud81b", "\\ude52", "\\ud81b", "\\ude53", "\\ud81b", "\\ude54",
     "\\ud81b", "\\ude55", "\\ud81b", "\\ude56", "\\ud81b", "\\ude57",
     "\\ud81b", "\\ude58", "\\ud81b", "\\ude59", "\\ud81b", "\\ude5a",
     "\\ud81b", "\\ude5b", "\\ud81b", "\\ude5c", "\\ud81b", "\\ude5d",
     "\\ud81b", "\\ude5e", "\\ud81b", "\\ude5f", "\\ud81b", "\\ude60",
     "\\ud81b", "\\ude61", "\\ud81b", "\\ude62", "\\ud81b", "\\ude63",
     "\\ud81b", "\\ude64", "\\ud81b", "\\ude65", "\\ud81b", "\\ude66",
     "\\ud81b", "\\ude67", "\\ud81b", "\\ude68", "\\ud81b", "\\ude69",
     "\\ud81b", "\\ude6a", "\\ud81b", "\\ude6b", "\\ud81b", "\\ude6c",
     "\\ud81b", "\\ude6d", "\\ud81b", "\\ude6e", "\\ud81b", "\\ude6f",
     "\\ud81b", "\\ude70", "\\ud81b", "\\ude71", "\\ud81b", "\\ude72",
     "\\ud81b", "\\ude73", "\\ud81b", "\\ude74", "\\ud81b", "\\ude75",
     "\\ud81b", "\\ude76", "\\ud81b", "\\ude77", "\\ud81b", "\\ude78",
     "\\ud81b", "\\ude79", "\\ud81b", "\\ude7a", "\\ud81b", "\\ude7b",
     "\\ud81b", "\\ude7c", "\\ud81b", "\\ude7d", "\\ud81b", "\\ude7e",
     "\\ud81b", "\\ude7f", "\\ud81b", "\\udea0", "\\ud81b", "\\udea1",
     "\\ud81b", "\\udea2", "\\ud81b", "\\udea3", "\\ud81b", "\\udea4",
     "\\ud81b", "\\udea5", "\\ud81b", "\\udea6", "\\ud81b", "\\udea7",
     "\\ud81b", "\\udea8", "\\ud81b", "\\udea9", "\\ud81b", "\\udeaa",
     "\\ud81b", "\\udeab", "\\ud81b", "\\udeac", "\\ud81b", "\\udead",
     "\\ud81b", "\\udeae", "\\ud81b", "\\udeaf", "\\ud81b", "\\udeb0",
     "\\ud81b", "\\udeb1", "\\ud81b", "\\udeb2", "\\ud81b", "\\udeb3",
     "\\ud81b", "\\udeb4", "\\ud81b", "\\udeb5", "\\ud81b", "\\udeb6",
     "\\ud81b", "\\udeb7", "\\ud81b", "\\udeb8", "\\ud81b", "\\udebb",
     "\\ud81b", "\\udebc", "\\ud81b", "\\udebd", "\\ud81b", "\\udebe",
     "\\ud81b", "\\udebf", "\\ud81b", "\\udec0", "\\ud81b", "\\udec1",
     "\\ud81b", "\\udec2", "\\ud81b", "\\udec3", "\\ud81b", "\\udec4",
     "\\ud81b", "\\udec5", "\\ud81b", "\\udec6", "\\ud81b", "\\udec7",
     "\\ud81b", "\\udec8", "\\ud81b", "\\udec9", "\\ud81b", "\\udeca",
     "\\ud81b", "\\udecb", "\\ud81b", "\\udecc", "\\ud81b", "\\udecd",
     "\\ud81b", "\\udece", "\\ud81b", "\\udecf", "\\ud81b", "\\uded0",
     "\\ud81b", "\\uded1", "\\ud81b", "\\uded2", "\\ud81b", "\\uded3",
     "\\ud835", "\\udc00", "\\ud835", "\\udc01", "\\ud835", "\\udc02",
     "\\ud835", "\\udc03", "\\ud835", "\\udc04", "\\ud835", "\\udc05",
     "\\ud835", "\\udc06", "\\ud835", "\\udc07", "\\ud835", "\\udc08",
     "\\ud835", "\\udc09", "\\ud835", "\\udc0a", "\\ud835", "\\udc0b",
     "\\ud835", "\\udc0c", "\\ud835", "\\udc0d", "\\ud835", "\\udc0e",
     "\\ud835", "\\udc0f", "\\ud835", "\\udc10", "\\ud835", "\\udc11",
     "\\ud835", "\\udc12", "\\ud835", "\\udc13", "\\ud835", "\\udc14",
     "\\ud835", "\\udc15", "\\ud835", "\\udc16", "\\ud835", "\\udc17",
     "\\ud835", "\\udc18", "\\ud835", "\\udc19", "\\ud835", "\\udc1a",
     "\\ud835", "\\udc1b", "\\ud835", "\\udc1c", "\\ud835", "\\udc1d",
     "\\ud835", "\\udc1e", "\\ud835", "\\udc1f", "\\ud835", "\\udc20",
     "\\ud835", "\\udc21", "\\ud835", "\\udc22", "\\ud835", "\\udc23",
     "\\ud835", "\\udc24", "\\ud835", "\\udc25", "\\ud835", "\\udc26",
     "\\ud835", "\\udc27", "\\ud835", "\\udc28", "\\ud835", "\\udc29",
     "\\ud835", "\\udc2a", "\\ud835", "\\udc2b", "\\ud835", "\\udc2c",
     "\\ud835", "\\udc2d", "\\ud835", "\\udc2e", "\\ud835", "\\udc2f",
     "\\ud835", "\\udc30", "\\ud835", "\\udc31", "\\ud835", "\\udc32",
     "\\ud835", "\\udc33", "\\ud835", "\\udc34", "\\ud835", "\\udc35",
     "\\ud835", "\\udc36", "\\ud835", "\\udc37", "\\ud835", "\\udc38",
     "\\ud835", "\\udc39", "\\ud835", "\\udc3a", "\\ud835", "\\udc3b",
     "\\ud835", "\\udc3c", "\\ud835", "\\udc3d", "\\ud835", "\\udc3e",
     "\\ud835", "\\udc3f", "\\ud835", "\\udc40", "\\ud835", "\\udc41",
     "\\ud835", "\\udc42", "\\ud835", "\\udc43", "\\ud835", "\\udc44",
     "\\ud835", "\\udc45", "\\ud835", "\\udc46", "\\ud835", "\\udc47",
     "\\ud835", "\\udc48", "\\ud835", "\\udc49", "\\ud835", "\\udc4a",
     "\\ud835", "\\udc4b", "\\ud835", "\\udc4c", "\\ud835", "\\udc4d",
     "\\ud835", "\\udc4e", "\\ud835", "\\udc4f", "\\ud835", "\\udc50",
     "\\ud835", "\\udc51", "\\ud835", "\\udc52", "\\ud835", "\\udc53",
     "\\ud835", "\\udc54", "\\ud835", "\\udc56", "\\ud835", "\\udc57",
     "\\ud835", "\\udc58", "\\ud835", "\\udc59", "\\ud835", "\\udc5a",
     "\\ud835", "\\udc5b", "\\ud835", "\\udc5c", "\\ud835", "\\udc5d",
     "\\ud835", "\\udc5e", "\\ud835", "\\udc5f", "\\ud835", "\\udc60",
     "\\ud835", "\\udc61", "\\ud835", "\\udc62", "\\ud835", "\\udc63",
     "\\ud835", "\\udc64", "\\ud835", "\\udc65", "\\ud835", "\\udc66",
     "\\ud835", "\\udc67", "\\ud835", "\\udc68", "\\ud835", "\\udc69",
     "\\ud835", "\\udc6a", "\\ud835", "\\udc6b", "\\ud835", "\\udc6c",
     "\\ud835", "\\udc6d", "\\ud835", "\\udc6e", "\\ud835", "\\udc6f",
     "\\ud835", "\\udc70", "\\ud835", "\\udc71", "\\ud835", "\\udc72",
     "\\ud835", "\\udc73", "\\ud835", "\\udc74", "\\ud835", "\\udc75",
     "\\ud835", "\\udc76", "\\ud835", "\\udc77", "\\ud835", "\\udc78",
     "\\ud835", "\\udc79", "\\ud835", "\\udc7a", "\\ud835", "\\udc7b",
     "\\ud835", "\\udc7c", "\\ud835", "\\udc7d", "\\ud835", "\\udc7e",
     "\\ud835", "\\udc7f", "\\ud835", "\\udc80", "\\ud835", "\\udc81",
     "\\ud835", "\\udc82", "\\ud835", "\\udc83", "\\ud835", "\\udc84",
     "\\ud835", "\\udc85", "\\ud835", "\\udc86", "\\ud835", "\\udc87",
     "\\ud835", "\\udc88", "\\ud835", "\\udc89", "\\ud835", "\\udc8a",
     "\\ud835", "\\udc8b", "\\ud835", "\\udc8c", "\\ud835", "\\udc8d",
     "\\ud835", "\\udc8e", "\\ud835", "\\udc8f", "\\ud835", "\\udc90",
     "\\ud835", "\\udc91", "\\ud835", "\\udc92", "\\ud835", "\\udc93",
     "\\ud835", "\\udc94", "\\ud835", "\\udc95", "\\ud835", "\\udc96",
     "\\ud835", "\\udc97", "\\ud835", "\\udc98", "\\ud835", "\\udc99",
     "\\ud835", "\\udc9a", "\\ud835", "\\udc9b", "\\ud835", "\\udc9c",
     "\\ud835", "\\udc9e", "\\ud835", "\\udc9f", "\\ud835", "\\udca2",
     "\\ud835", "\\udca5", "\\ud835", "\\udca6", "\\ud835", "\\udca9",
     "\\ud835", "\\udcaa", "\\ud835", "\\udcab", "\\ud835", "\\udcac",
     "\\ud835", "\\udcae", "\\ud835", "\\udcaf", "\\ud835", "\\udcb0",
     "\\ud835", "\\udcb1", "\\ud835", "\\udcb2", "\\ud835", "\\udcb3",
     "\\ud835", "\\udcb4", "\\ud835", "\\udcb5", "\\ud835", "\\udcb6",
     "\\ud835", "\\udcb7", "\\ud835", "\\udcb8", "\\ud835", "\\udcb9",
     "\\ud835", "\\udcbb", "\\ud835", "\\udcbd", "\\ud835", "\\udcbe",
     "\\ud835", "\\udcbf", "\\ud835", "\\udcc0", "\\ud835", "\\udcc1",
     "\\ud835", "\\udcc2", "\\ud835", "\\udcc3", "\\ud835", "\\udcc5",
     "\\ud835", "\\udcc6", "\\ud835", "\\udcc7", "\\ud835", "\\udcc8",
     "\\ud835", "\\udcc9", "\\ud835", "\\udcca", "\\ud835", "\\udccb",
     "\\ud835", "\\udccc", "\\ud835", "\\udccd", "\\ud835", "\\udcce",
     "\\ud835", "\\udccf", "\\ud835", "\\udcd0", "\\ud835", "\\udcd1",
     "\\ud835", "\\udcd2", "\\ud835", "\\udcd3", "\\ud835", "\\udcd4",
     "\\ud835", "\\udcd5", "\\ud835", "\\udcd6", "\\ud835", "\\udcd7",
     "\\ud835", "\\udcd8", "\\ud835", "\\udcd9", "\\ud835", "\\udcda",
     "\\ud835", "\\udcdb", "\\ud835", "\\udcdc", "\\ud835", "\\udcdd",
     "\\ud835", "\\udcde", "\\ud835", "\\udcdf", "\\ud835", "\\udce0",
     "\\ud835", "\\udce1", "\\ud835", "\\udce2", "\\ud835", "\\udce3",
     "\\ud835", "\\udce4", "\\ud835", "\\udce5", "\\ud835", "\\udce6",
     "\\ud835", "\\udce7", "\\ud835", "\\udce8", "\\ud835", "\\udce9",
     "\\ud835", "\\udcea", "\\ud835", "\\udceb", "\\ud835", "\\udcec",
     "\\ud835", "\\udced", "\\ud835", "\\udcee", "\\ud835", "\\udcef",
     "\\ud835", "\\udcf0", "\\ud835", "\\udcf1", "\\ud835", "\\udcf2",
     "\\ud835", "\\udcf3", "\\ud835", "\\udcf4", "\\ud835", "\\udcf5",
     "\\ud835", "\\udcf6", "\\ud835", "\\udcf7", "\\ud835", "\\udcf8",
     "\\ud835", "\\udcf9", "\\ud835", "\\udcfa", "\\ud835", "\\udcfb",
     "\\ud835", "\\udcfc", "\\ud835", "\\udcfd", "\\ud835", "\\udcfe",
     "\\ud835", "\\udcff", "\\ud835", "\\udd00", "\\ud835", "\\udd01",
     "\\ud835", "\\udd02", "\\ud835", "\\udd03", "\\ud835", "\\udd04",
     "\\ud835", "\\udd05", "\\ud835", "\\udd07", "\\ud835", "\\udd08",
     "\\ud835", "\\udd09", "\\ud835", "\\udd0a", "\\ud835", "\\udd0d",
     "\\ud835", "\\udd0e", "\\ud835", "\\udd0f", "\\ud835", "\\udd10",
     "\\ud835", "\\udd11", "\\ud835", "\\udd12", "\\ud835", "\\udd13",
     "\\ud835", "\\udd14", "\\ud835", "\\udd16", "\\ud835", "\\udd17",
     "\\ud835", "\\udd18", "\\ud835", "\\udd19", "\\ud835", "\\udd1a",
     "\\ud835", "\\udd1b", "\\ud835", "\\udd1c", "\\ud835", "\\udd1e",
     "\\ud835", "\\udd1f", "\\ud835", "\\udd20", "\\ud835", "\\udd21",
     "\\ud835", "\\udd22", "\\ud835", "\\udd23", "\\ud835", "\\udd24",
     "\\ud835", "\\udd25", "\\ud835", "\\udd26", "\\ud835", "\\udd27",
     "\\ud835", "\\udd28", "\\ud835", "\\udd29", "\\ud835", "\\udd2a",
     "\\ud835", "\\udd2b", "\\ud835", "\\udd2c", "\\ud835", "\\udd2d",
     "\\ud835", "\\udd2e", "\\ud835", "\\udd2f", "\\ud835", "\\udd30",
     "\\ud835", "\\udd31", "\\ud835", "\\udd32", "\\ud835", "\\udd33",
     "\\ud835", "\\udd34", "\\ud835", "\\udd35", "\\ud835", "\\udd36",
     "\\ud835", "\\udd37", "\\ud835", "\\udd38", "\\ud835", "\\udd39",
     "\\ud835", "\\udd3b", "\\ud835", "\\udd3c", "\\ud835", "\\udd3d",
     "\\ud835", "\\udd3e", "\\ud835", "\\udd40", "\\ud835", "\\udd41",
     "\\ud835", "\\udd42", "\\ud835", "\\udd43", "\\ud835", "\\udd44",
     "\\ud835", "\\udd46", "\\ud835", "\\udd4a", "\\ud835", "\\udd4b",
     "\\ud835", "\\udd4c", "\\ud835", "\\udd4d", "\\ud835", "\\udd4e",
     "\\ud835", "\\udd4f", "\\ud835", "\\udd50", "\\ud835", "\\udd52",
     "\\ud835", "\\udd53", "\\ud835", "\\udd54", "\\ud835", "\\udd55",
     "\\ud835", "\\udd56", "\\ud835", "\\udd57", "\\ud835", "\\udd58",
     "\\ud835", "\\udd59", "\\ud835", "\\udd5a", "\\ud835", "\\udd5b",
     "\\ud835", "\\udd5c", "\\ud835", "\\udd5d", "\\ud835", "\\udd5e",
     "\\ud835", "\\udd5f", "\\ud835", "\\udd60", "\\ud835", "\\udd61",
     "\\ud835", "\\udd62", "\\ud835", "\\udd63", "\\ud835", "\\udd64",
     "\\ud835", "\\udd65", "\\ud835", "\\udd66", "\\ud835", "\\udd67",
     "\\ud835", "\\udd68", "\\ud835", "\\udd69", "\\ud835", "\\udd6a",
     "\\ud835", "\\udd6b", "\\ud835", "\\udd6c", "\\ud835", "\\udd6d",
     "\\ud835", "\\udd6e", "\\ud835", "\\udd6f", "\\ud835", "\\udd70",
     "\\ud835", "\\udd71", "\\ud835", "\\udd72", "\\ud835", "\\udd73",
     "\\ud835", "\\udd74", "\\ud835", "\\udd75", "\\ud835", "\\udd76",
     "\\ud835", "\\udd77", "\\ud835", "\\udd78", "\\ud835", "\\udd79",
     "\\ud835", "\\udd7a", "\\ud835", "\\udd7b", "\\ud835", "\\udd7c",
     "\\ud835", "\\udd7d", "\\ud835", "\\udd7e", "\\ud835", "\\udd7f",
     "\\ud835", "\\udd80", "\\ud835", "\\udd81", "\\ud835", "\\udd82",
     "\\ud835", "\\udd83", "\\ud835", "\\udd84", "\\ud835", "\\udd85",
     "\\ud835", "\\udd86", "\\ud835", "\\udd87", "\\ud835", "\\udd88",
     "\\ud835", "\\udd89", "\\ud835", "\\udd8a", "\\ud835", "\\udd8b",
     "\\ud835", "\\udd8c", "\\ud835", "\\udd8d", "\\ud835", "\\udd8e",
     "\\ud835", "\\udd8f", "\\ud835", "\\udd90", "\\ud835", "\\udd91",
     "\\ud835", "\\udd92", "\\ud835", "\\udd93", "\\ud835", "\\udd94",
     "\\ud835", "\\udd95", "\\ud835", "\\udd96", "\\ud835", "\\udd97",
     "\\ud835", "\\udd98", "\\ud835", "\\udd99", "\\ud835", "\\udd9a",
     "\\ud835", "\\udd9b", "\\ud835", "\\udd9c", "\\ud835", "\\udd9d",
     "\\ud835", "\\udd9e", "\\ud835", "\\udd9f", "\\ud835", "\\udda0",
     "\\ud835", "\\udda1", "\\ud835", "\\udda2", "\\ud835", "\\udda3",
     "\\ud835", "\\udda4", "\\ud835", "\\udda5", "\\ud835", "\\udda6",
     "\\ud835", "\\udda7", "\\ud835", "\\udda8", "\\ud835", "\\udda9",
     "\\ud835", "\\uddaa", "\\ud835", "\\uddab", "\\ud835", "\\uddac",
     "\\ud835", "\\uddad", "\\ud835", "\\uddae", "\\ud835", "\\uddaf",
     "\\ud835", "\\uddb0", "\\ud835", "\\uddb1", "\\ud835", "\\uddb2",
     "\\ud835", "\\uddb3", "\\ud835", "\\uddb4", "\\ud835", "\\uddb5",
     "\\ud835", "\\uddb6", "\\ud835", "\\uddb7", "\\ud835", "\\uddb8",
     "\\ud835", "\\uddb9", "\\ud835", "\\uddba", "\\ud835", "\\uddbb",
     "\\ud835", "\\uddbc", "\\ud835", "\\uddbd", "\\ud835", "\\uddbe",
     "\\ud835", "\\uddbf", "\\ud835", "\\uddc0", "\\ud835", "\\uddc1",
     "\\ud835", "\\uddc2", "\\ud835", "\\uddc3", "\\ud835", "\\uddc4",
     "\\ud835", "\\uddc5", "\\ud835", "\\uddc6", "\\ud835", "\\uddc7",
     "\\ud835", "\\uddc8", "\\ud835", "\\uddc9", "\\ud835", "\\uddca",
     "\\ud835", "\\uddcb", "\\ud835", "\\uddcc", "\\ud835", "\\uddcd",
     "\\ud835", "\\uddce", "\\ud835", "\\uddcf", "\\ud835", "\\uddd0",
     "\\ud835", "\\uddd1", "\\ud835", "\\uddd2", "\\ud835", "\\uddd3",
     "\\ud835", "\\uddd4", "\\ud835", "\\uddd5", "\\ud835", "\\uddd6",
     "\\ud835", "\\uddd7", "\\ud835", "\\uddd8", "\\ud835", "\\uddd9",
     "\\ud835", "\\uddda", "\\ud835", "\\udddb", "\\ud835", "\\udddc",
     "\\ud835", "\\udddd", "\\ud835", "\\uddde", "\\ud835", "\\udddf",
     "\\ud835", "\\udde0", "\\ud835", "\\udde1", "\\ud835", "\\udde2",
     "\\ud835", "\\udde3", "\\ud835", "\\udde4", "\\ud835", "\\udde5",
     "\\ud835", "\\udde6", "\\ud835", "\\udde7", "\\ud835", "\\udde8",
     "\\ud835", "\\udde9", "\\ud835", "\\uddea", "\\ud835", "\\uddeb",
     "\\ud835", "\\uddec", "\\ud835", "\\udded", "\\ud835", "\\uddee",
     "\\ud835", "\\uddef", "\\ud835", "\\uddf0", "\\ud835", "\\uddf1",
     "\\ud835", "\\uddf2", "\\ud835", "\\uddf3", "\\ud835", "\\uddf4",
     "\\ud835", "\\uddf5", "\\ud835", "\\uddf6", "\\ud835", "\\uddf7",
     "\\ud835", "\\uddf8", "\\ud835", "\\uddf9", "\\ud835", "\\uddfa",
     "\\ud835", "\\uddfb", "\\ud835", "\\uddfc", "\\ud835", "\\uddfd",
     "\\ud835", "\\uddfe", "\\ud835", "\\uddff", "\\ud835", "\\ude00",
     "\\ud835", "\\ude01", "\\ud835", "\\ude02", "\\ud835", "\\ude03",
     "\\ud835", "\\ude04", "\\ud835", "\\ude05", "\\ud835", "\\ude06",
     "\\ud835", "\\ude07", "\\ud835", "\\ude08", "\\ud835", "\\ude09",
     "\\ud835", "\\ude0a", "\\ud835", "\\ude0b", "\\ud835", "\\ude0c",
     "\\ud835", "\\ude0d", "\\ud835", "\\ude0e", "\\ud835", "\\ude0f",
     "\\ud835", "\\ude10", "\\ud835", "\\ude11", "\\ud835", "\\ude12",
     "\\ud835", "\\ude13", "\\ud835", "\\ude14", "\\ud835", "\\ude15",
     "\\ud835", "\\ude16", "\\ud835", "\\ude17", "\\ud835", "\\ude18",
     "\\ud835", "\\ude19", "\\ud835", "\\ude1a", "\\ud835", "\\ude1b",
     "\\ud835", "\\ude1c", "\\ud835", "\\ude1d", "\\ud835", "\\ude1e",
     "\\ud835", "\\ude1f", "\\ud835", "\\ude20", "\\ud835", "\\ude21",
     "\\ud835", "\\ude22", "\\ud835", "\\ude23", "\\ud835", "\\ude24",
     "\\ud835", "\\ude25", "\\ud835", "\\ude26", "\\ud835", "\\ude27",
     "\\ud835", "\\ude28", "\\ud835", "\\ude29", "\\ud835", "\\ude2a",
     "\\ud835", "\\ude2b", "\\ud835", "\\ude2c", "\\ud835", "\\ude2d",
     "\\ud835", "\\ude2e", "\\ud835", "\\ude2f", "\\ud835", "\\ude30",
     "\\ud835", "\\ude31", "\\ud835", "\\ude32", "\\ud835", "\\ude33",
     "\\ud835", "\\ude34", "\\ud835", "\\ude35", "\\ud835", "\\ude36",
     "\\ud835", "\\ude37", "\\ud835", "\\ude38", "\\ud835", "\\ude39",
     "\\ud835", "\\ude3a", "\\ud835", "\\ude3b", "\\ud835", "\\ude3c",
     "\\ud835", "\\ude3d", "\\ud835", "\\ude3e", "\\ud835", "\\ude3f",
     "\\ud835", "\\ude40", "\\ud835", "\\ude41", "\\ud835", "\\ude42",
     "\\ud835", "\\ude43", "\\ud835", "\\ude44", "\\ud835", "\\ude45",
     "\\ud835", "\\ude46", "\\ud835", "\\ude47", "\\ud835", "\\ude48",
     "\\ud835", "\\ude49", "\\ud835", "\\ude4a", "\\ud835", "\\ude4b",
     "\\ud835", "\\ude4c", "\\ud835", "\\ude4d", "\\ud835", "\\ude4e",
     "\\ud835", "\\ude4f", "\\ud835", "\\ude50", "\\ud835", "\\ude51",
     "\\ud835", "\\ude52", "\\ud835", "\\ude53", "\\ud835", "\\ude54",
     "\\ud835", "\\ude55", "\\ud835", "\\ude56", "\\ud835", "\\ude57",
     "\\ud835", "\\ude58", "\\ud835", "\\ude59", "\\ud835", "\\ude5a",
     "\\ud835", "\\ude5b", "\\ud835", "\\ude5c", "\\ud835", "\\ude5d",
     "\\ud835", "\\ude5e", "\\ud835", "\\ude5f", "\\ud835", "\\ude60",
     "\\ud835", "\\ude61", "\\ud835", "\\ude62", "\\ud835", "\\ude63",
     "\\ud835", "\\ude64", "\\ud835", "\\ude65", "\\ud835", "\\ude66",
     "\\ud835", "\\ude67", "\\ud835", "\\ude68", "\\ud835", "\\ude69",
     "\\ud835", "\\ude6a", "\\ud835", "\\ude6b", "\\ud835", "\\ude6c",
     "\\ud835", "\\ude6d", "\\ud835", "\\ude6e", "\\ud835", "\\ude6f",
     "\\ud835", "\\ude70", "\\ud835", "\\ude71", "\\ud835", "\\ude72",
     "\\ud835", "\\ude73", "\\ud835", "\\ude74", "\\ud835", "\\ude75",
     "\\ud835", "\\ude76", "\\ud835", "\\ude77", "\\ud835", "\\ude78",
     "\\ud835", "\\ude79", "\\ud835", "\\ude7a", "\\ud835", "\\ude7b",
     "\\ud835", "\\ude7c", "\\ud835", "\\ude7d", "\\ud835", "\\ude7e",
     "\\ud835", "\\ude7f", "\\ud835", "\\ude80", "\\ud835", "\\ude81",
     "\\ud835", "\\ude82", "\\ud835", "\\ude83", "\\ud835", "\\ude84",
     "\\ud835", "\\ude85", "\\ud835", "\\ude86", "\\ud835", "\\ude87",
     "\\ud835", "\\ude88", "\\ud835", "\\ude89", "\\ud835", "\\ude8a",
     "\\ud835", "\\ude8b", "\\ud835", "\\ude8c", "\\ud835", "\\ude8d",
     "\\ud835", "\\ude8e", "\\ud835", "\\ude8f", "\\ud835", "\\ude90",
     "\\ud835", "\\ude91", "\\ud835", "\\ude92", "\\ud835", "\\ude93",
     "\\ud835", "\\ude94", "\\ud835", "\\ude95", "\\ud835", "\\ude96",
     "\\ud835", "\\ude97", "\\ud835", "\\ude98", "\\ud835", "\\ude99",
     "\\ud835", "\\ude9a", "\\ud835", "\\ude9b", "\\ud835", "\\ude9c",
     "\\ud835", "\\ude9d", "\\ud835", "\\ude9e", "\\ud835", "\\ude9f",
     "\\ud835", "\\udea0", "\\ud835", "\\udea1", "\\ud835", "\\udea2",
     "\\ud835", "\\udea3", "\\ud835", "\\udea4", "\\ud835", "\\udea5",
     "\\ud835", "\\udea8", "\\ud835", "\\udea9", "\\ud835", "\\udeaa",
     "\\ud835", "\\udeab", "\\ud835", "\\udeac", "\\ud835", "\\udead",
     "\\ud835", "\\udeae", "\\ud835", "\\udeaf", "\\ud835", "\\udeb0",
     "\\ud835", "\\udeb1", "\\ud835", "\\udeb2", "\\ud835", "\\udeb3",
     "\\ud835", "\\udeb4", "\\ud835", "\\udeb5", "\\ud835", "\\udeb6",
     "\\ud835", "\\udeb7", "\\ud835", "\\udeb8", "\\ud835", "\\udeb9",
     "\\ud835", "\\udeba", "\\ud835", "\\udebb", "\\ud835", "\\udebc",
     "\\ud835", "\\udebd", "\\ud835", "\\udebe", "\\ud835", "\\udebf",
     "\\ud835", "\\udec0", "\\ud835", "\\udec2", "\\ud835", "\\udec3",
     "\\ud835", "\\udec4", "\\ud835", "\\udec5", "\\ud835", "\\udec6",
     "\\ud835", "\\udec7", "\\ud835", "\\udec8", "\\ud835", "\\udec9",
     "\\ud835", "\\udeca", "\\ud835", "\\udecb", "\\ud835", "\\udecc",
     "\\ud835", "\\udecd", "\\ud835", "\\udece", "\\ud835", "\\udecf",
     "\\ud835", "\\uded0", "\\ud835", "\\uded1", "\\ud835", "\\uded2",
     "\\ud835", "\\uded3", "\\ud835", "\\uded4", "\\ud835", "\\uded5",
     "\\ud835", "\\uded6", "\\ud835", "\\uded7", "\\ud835", "\\uded8",
     "\\ud835", "\\uded9", "\\ud835", "\\udeda", "\\ud835", "\\udedc",
     "\\ud835", "\\udedd", "\\ud835", "\\udede", "\\ud835", "\\udedf",
     "\\ud835", "\\udee0", "\\ud835", "\\udee1", "\\ud835", "\\udee2",
     "\\ud835", "\\udee3", "\\ud835", "\\udee4", "\\ud835", "\\udee5",
     "\\ud835", "\\udee6", "\\ud835", "\\udee7", "\\ud835", "\\udee8",
     "\\ud835", "\\udee9", "\\ud835", "\\udeea", "\\ud835", "\\udeeb",
     "\\ud835", "\\udeec", "\\ud835", "\\udeed", "\\ud835", "\\udeee",
     "\\ud835", "\\udeef", "\\ud835", "\\udef0", "\\ud835", "\\udef1",
     "\\ud835", "\\udef2", "\\ud835", "\\udef3", "\\ud835", "\\udef4",
     "\\ud835", "\\udef5", "\\ud835", "\\udef6", "\\ud835", "\\udef7",
     "\\ud835", "\\udef8", "\\ud835", "\\udef9", "\\ud835", "\\udefa",
     "\\ud835", "\\udefc", "\\ud835", "\\udefd", "\\ud835", "\\udefe",
     "\\ud835", "\\udeff", "\\ud835", "\\udf00", "\\ud835", "\\udf01",
     "\\ud835", "\\udf02", "\\ud835", "\\udf03", "\\ud835", "\\udf04",
     "\\ud835", "\\udf05", "\\ud835", "\\udf06", "\\ud835", "\\udf07",
     "\\ud835", "\\udf08", "\\ud835", "\\udf09", "\\ud835", "\\udf0a",
     "\\ud835", "\\udf0b", "\\ud835", "\\udf0c", "\\ud835", "\\udf0d",
     "\\ud835", "\\udf0e", "\\ud835", "\\udf0f", "\\ud835", "\\udf10",
     "\\ud835", "\\udf11", "\\ud835", "\\udf12", "\\ud835", "\\udf13",
     "\\ud835", "\\udf14", "\\ud835", "\\udf16", "\\ud835", "\\udf17",
     "\\ud835", "\\udf18", "\\ud835", "\\udf19", "\\ud835", "\\udf1a",
     "\\ud835", "\\udf1b", "\\ud835", "\\udf1c", "\\ud835", "\\udf1d",
     "\\ud835", "\\udf1e", "\\ud835", "\\udf1f", "\\ud835", "\\udf20",
     "\\ud835", "\\udf21", "\\ud835", "\\udf22", "\\ud835", "\\udf23",
     "\\ud835", "\\udf24", "\\ud835", "\\udf25", "\\ud835", "\\udf26",
     "\\ud835", "\\udf27", "\\ud835", "\\udf28", "\\ud835", "\\udf29",
     "\\ud835", "\\udf2a", "\\ud835", "\\udf2b", "\\ud835", "\\udf2c",
     "\\ud835", "\\udf2d", "\\ud835", "\\udf2e", "\\ud835", "\\udf2f",
     "\\ud835", "\\udf30", "\\ud835", "\\udf31", "\\ud835", "\\udf32",
     "\\ud835", "\\udf33", "\\ud835", "\\udf34", "\\ud835", "\\udf36",
     "\\ud835", "\\udf37", "\\ud835", "\\udf38", "\\ud835", "\\udf39",
     "\\ud835", "\\udf3a", "\\ud835", "\\udf3b", "\\ud835", "\\udf3c",
     "\\ud835", "\\udf3d", "\\ud835", "\\udf3e", "\\ud835", "\\udf3f",
     "\\ud835", "\\udf40", "\\ud835", "\\udf41", "\\ud835", "\\udf42",
     "\\ud835", "\\udf43", "\\ud835", "\\udf44", "\\ud835", "\\udf45",
     "\\ud835", "\\udf46", "\\ud835", "\\udf47", "\\ud835", "\\udf48",
     "\\ud835", "\\udf49", "\\ud835", "\\udf4a", "\\ud835", "\\udf4b",
     "\\ud835", "\\udf4c", "\\ud835", "\\udf4d", "\\ud835", "\\udf4e",
     "\\ud835", "\\udf50", "\\ud835", "\\udf51", "\\ud835", "\\udf52",
     "\\ud835", "\\udf53", "\\ud835", "\\udf54", "\\ud835", "\\udf55",
     "\\ud835", "\\udf56", "\\ud835", "\\udf57", "\\ud835", "\\udf58",
     "\\ud835", "\\udf59", "\\ud835", "\\udf5a", "\\ud835", "\\udf5b",
     "\\ud835", "\\udf5c", "\\ud835", "\\udf5d", "\\ud835", "\\udf5e",
     "\\ud835", "\\udf5f", "\\ud835", "\\udf60", "\\ud835", "\\udf61",
     "\\ud835", "\\udf62", "\\ud835", "\\udf63", "\\ud835", "\\udf64",
     "\\ud835", "\\udf65", "\\ud835", "\\udf66", "\\ud835", "\\udf67",
     "\\ud835", "\\udf68", "\\ud835", "\\udf69", "\\ud835", "\\udf6a",
     "\\ud835", "\\udf6b", "\\ud835", "\\udf6c", "\\ud835", "\\udf6d",
     "\\ud835", "\\udf6e", "\\ud835", "\\udf70", "\\ud835", "\\udf71",
     "\\ud835", "\\udf72", "\\ud835", "\\udf73", "\\ud835", "\\udf74",
     "\\ud835", "\\udf75", "\\ud835", "\\udf76", "\\ud835", "\\udf77",
     "\\ud835", "\\udf78", "\\ud835", "\\udf79", "\\ud835", "\\udf7a",
     "\\ud835", "\\udf7b", "\\ud835", "\\udf7c", "\\ud835", "\\udf7d",
     "\\ud835", "\\udf7e", "\\ud835", "\\udf7f", "\\ud835", "\\udf80",
     "\\ud835", "\\udf81", "\\ud835", "\\udf82", "\\ud835", "\\udf83",
     "\\ud835", "\\udf84", "\\ud835", "\\udf85", "\\ud835", "\\udf86",
     "\\ud835", "\\udf87", "\\ud835", "\\udf88", "\\ud835", "\\udf8a",
     "\\ud835", "\\udf8b", "\\ud835", "\\udf8c", "\\ud835", "\\udf8d",
     "\\ud835", "\\udf8e", "\\ud835", "\\udf8f", "\\ud835", "\\udf90",
     "\\ud835", "\\udf91", "\\ud835", "\\udf92", "\\ud835", "\\udf93",
     "\\ud835", "\\udf94", "\\ud835", "\\udf95", "\\ud835", "\\udf96",
     "\\ud835", "\\udf97", "\\ud835", "\\udf98", "\\ud835", "\\udf99",
     "\\ud835", "\\udf9a", "\\ud835", "\\udf9b", "\\ud835", "\\udf9c",
     "\\ud835", "\\udf9d", "\\ud835", "\\udf9e", "\\ud835", "\\udf9f",
     "\\ud835", "\\udfa0", "\\ud835", "\\udfa1", "\\ud835", "\\udfa2",
     "\\ud835", "\\udfa3", "\\ud835", "\\udfa4", "\\ud835", "\\udfa5",
     "\\ud835", "\\udfa6", "\\ud835", "\\udfa7", "\\ud835", "\\udfa8",
     "\\ud835", "\\udfaa", "\\ud835", "\\udfab", "\\ud835", "\\udfac",
     "\\ud835", "\\udfad", "\\ud835", "\\udfae", "\\ud835", "\\udfaf",
     "\\ud835", "\\udfb0", "\\ud835", "\\udfb1", "\\ud835", "\\udfb2",
     "\\ud835", "\\udfb3", "\\ud835", "\\udfb4", "\\ud835", "\\udfb5",
     "\\ud835", "\\udfb6", "\\ud835", "\\udfb7", "\\ud835", "\\udfb8",
     "\\ud835", "\\udfb9", "\\ud835", "\\udfba", "\\ud835", "\\udfbb",
     "\\ud835", "\\udfbc", "\\ud835", "\\udfbd", "\\ud835", "\\udfbe",
     "\\ud835", "\\udfbf", "\\ud835", "\\udfc0", "\\ud835", "\\udfc1",
     "\\ud835", "\\udfc2", "\\ud835", "\\udfc4", "\\ud835", "\\udfc5",
     "\\ud835", "\\udfc6", "\\ud835", "\\udfc7", "\\ud835", "\\udfc8",
     "\\ud835", "\\udfc9", "\\ud835", "\\udfca", "\\ud835", "\\udfcb",
     "\\ud837", "\\udf00", "\\ud837", "\\udf01", "\\ud837", "\\udf02",
     "\\ud837", "\\udf03", "\\ud837", "\\udf04", "\\ud837", "\\udf05",
     "\\ud837", "\\udf06", "\\ud837", "\\udf07", "\\ud837", "\\udf08",
     "\\ud837", "\\udf09", "\\ud837", "\\udf0b", "\\ud837", "\\udf0c",
     "\\ud837", "\\udf0d", "\\ud837", "\\udf0e", "\\ud837", "\\udf0f",
     "\\ud837", "\\udf10", "\\ud837", "\\udf11", "\\ud837", "\\udf12",
     "\\ud837", "\\udf13", "\\ud837", "\\udf14", "\\ud837", "\\udf15",
     "\\ud837", "\\udf16", "\\ud837", "\\udf17", "\\ud837", "\\udf18",
     "\\ud837", "\\udf19", "\\ud837", "\\udf1a", "\\ud837", "\\udf1b",
     "\\ud837", "\\udf1c", "\\ud837", "\\udf1d", "\\ud837", "\\udf1e",
     "\\ud837", "\\udf25", "\\ud837", "\\udf26", "\\ud837", "\\udf27",
     "\\ud837", "\\udf28", "\\ud837", "\\udf29", "\\ud837", "\\udf2a",
     "\\ud83a", "\\udd00", "\\ud83a", "\\udd01", "\\ud83a", "\\udd02",
     "\\ud83a", "\\udd03", "\\ud83a", "\\udd04", "\\ud83a", "\\udd05",
     "\\ud83a", "\\udd06", "\\ud83a", "\\udd07", "\\ud83a", "\\udd08",
     "\\ud83a", "\\udd09", "\\ud83a", "\\udd0a", "\\ud83a", "\\udd0b",
     "\\ud83a", "\\udd0c", "\\ud83a", "\\udd0d", "\\ud83a", "\\udd0e",
     "\\ud83a", "\\udd0f", "\\ud83a", "\\udd10", "\\ud83a", "\\udd11",
     "\\ud83a", "\\udd12", "\\ud83a", "\\udd13", "\\ud83a", "\\udd14",
     "\\ud83a", "\\udd15", "\\ud83a", "\\udd16", "\\ud83a", "\\udd17",
     "\\ud83a", "\\udd18", "\\ud83a", "\\udd19", "\\ud83a", "\\udd1a",
     "\\ud83a", "\\udd1b", "\\ud83a", "\\udd1c", "\\ud83a", "\\udd1d",
     "\\ud83a", "\\udd1e", "\\ud83a", "\\udd1f", "\\ud83a", "\\udd20",
     "\\ud83a", "\\udd21", "\\ud83a", "\\udd22", "\\ud83a", "\\udd23",
     "\\ud83a", "\\udd24", "\\ud83a", "\\udd25", "\\ud83a", "\\udd26",
     "\\ud83a", "\\udd27", "\\ud83a", "\\udd28", "\\ud83a", "\\udd29",
     "\\ud83a", "\\udd2a", "\\ud83a", "\\udd2b", "\\ud83a", "\\udd2c",
     "\\ud83a", "\\udd2d", "\\ud83a", "\\udd2e", "\\ud83a", "\\udd2f",
     "\\ud83a", "\\udd30", "\\ud83a", "\\udd31", "\\ud83a", "\\udd32",
     "\\ud83a", "\\udd33", "\\ud83a", "\\udd34", "\\ud83a", "\\udd35",
     "\\ud83a", "\\udd36", "\\ud83a", "\\udd37", "\\ud83a", "\\udd38",
     "\\ud83a", "\\udd39", "\\ud83a", "\\udd3a", "\\ud83a", "\\udd3b",
     "\\ud83a", "\\udd3c", "\\ud83a", "\\udd3d", "\\ud83a", "\\udd3e",
     "\\ud83a", "\\udd3f", "\\ud83a", "\\udd40", "\\ud83a", "\\udd41",
     "\\ud83a", "\\udd42", "\\ud83a", "\\udd43", "\\ud83c", "\\udd30",
     "\\ud83c", "\\udd31", "\\ud83c", "\\udd32", "\\ud83c", "\\udd33",
     "\\ud83c", "\\udd34", "\\ud83c", "\\udd35", "\\ud83c", "\\udd36",
     "\\ud83c", "\\udd37", "\\ud83c", "\\udd38", "\\ud83c", "\\udd39",
     "\\ud83c", "\\udd3a", "\\ud83c", "\\udd3b", "\\ud83c", "\\udd3c",
     "\\ud83c", "\\udd3d", "\\ud83c", "\\udd3e", "\\ud83c", "\\udd3f",
     "\\ud83c", "\\udd40", "\\ud83c", "\\udd41", "\\ud83c", "\\udd42",
     "\\ud83c", "\\udd43", "\\ud83c", "\\udd44", "\\ud83c", "\\udd45",
     "\\ud83c", "\\udd46", "\\ud83c", "\\udd47", "\\ud83c", "\\udd48",
     "\\ud83c", "\\udd49", "\\ud83c", "\\udd50", "\\ud83c", "\\udd51",
     "\\ud83c", "\\udd52", "\\ud83c", "\\udd53", "\\ud83c", "\\udd54",
     "\\ud83c", "\\udd55", "\\ud83c", "\\udd56", "\\ud83c", "\\udd57",
     "\\ud83c", "\\udd58", "\\ud83c", "\\udd59", "\\ud83c", "\\udd5a",
     "\\ud83c", "\\udd5b", "\\ud83c", "\\udd5c", "\\ud83c", "\\udd5d",
     "\\ud83c", "\\udd5e", "\\ud83c", "\\udd5f", "\\ud83c", "\\udd60",
     "\\ud83c", "\\udd61", "\\ud83c", "\\udd62", "\\ud83c", "\\udd63",
     "\\ud83c", "\\udd64", "\\ud83c", "\\udd65", "\\ud83c", "\\udd66",
     "\\ud83c", "\\udd67", "\\ud83c", "\\udd68", "\\ud83c", "\\udd69",
     "\\ud83c", "\\udd70", "\\ud83c", "\\udd71", "\\ud83c", "\\udd72",
     "\\ud83c", "\\udd73", "\\ud83c", "\\udd74", "\\ud83c", "\\udd75",
     "\\ud83c", "\\udd76", "\\ud83c", "\\udd77", "\\ud83c", "\\udd78",
     "\\ud83c", "\\udd79", "\\ud83c", "\\udd7a", "\\ud83c", "\\udd7b",
     "\\ud83c", "\\udd7c", "\\ud83c", "\\udd7d", "\\ud83c", "\\udd7e",
     "\\ud83c", "\\udd7f", "\\ud83c", "\\udd80", "\\ud83c", "\\udd81",
     "\\ud83c", "\\udd82", "\\ud83c", "\\udd83", "\\ud83c", "\\udd84",
     "\\ud83c", "\\udd85", "\\ud83c", "\\udd86", "\\ud83c", "\\udd87",
     "\\ud83c", "\\udd88", "\\ud83c", "\\udd89">>

\* The code units that are case-ignorable (Unicode property
\* Case_Ignorable).
IgnorableUnits ==
    {"'", ".", ":", "^", "\\u0060", "¨", "­", "¯", "´", "·", "¸", "\\u02b0",
     "\\u02b1", "\\u02b2", "\\u02b3", "\\u02b4", "\\u02b5", "\\u02b6",
     "\\u02b7", "\\u02b8", "\\u02b9", "\\u02ba", "\\u02bb", "\\u02bc",
     "\\u02bd", "\\u02be", "\\u02bf", "\\u02c0", "\\u02c1", "\\u02c2",
     "\\u02c3", "\\u02c4", "\\u02c5", "\\u02c6", "\\u02c7", "\\u02c8",
     "\\u02c9", "\\u02ca", "\\u02cb", "\\u02cc", "\\u02cd", "\\u02ce",
     "\\u02cf", "\\u02d0", "\\u02d1", "\\u02d2", "\\u02d3", "\\u02d4",
     "\\u02d5", "\\u02d6", "\\u02d7", "\\u02d8", "\\u02d9", "\\u02da",
     "\\u02db", "\\u02dc", "\\u02dd", "\\u02de", "\\u02df", "\\u02e0",
     "\\u02e1", "\\u02e2", "\\u02e3", "\\u02e4", "\\u02e5", "\\u02e6",
     "\\u02e7", "\\u02e8", "\\u02e9", "\\u02ea", "\\u02eb", "\\u02ec",
     "\\u02ed", "\\u02ee", "\\u02ef", "\\u02f0", "\\u02f1", "\\u02f2",
     "\\u02f3", "\\u02f4", "\\u02f5", "\\u02f6", "\\u02f7", "\\u02f8",
     "\\u02f9", "\\u02fa", "\\u02fb", "\\u02fc", "\\u02fd", "\\u02fe",
     "\\u02ff", "\\u0300", "\\u0301", "\\u0302", "\\u0303", "\\u0304",
     "\\u0305", "\\u0306", "\\u0307", "\\u0308", "\\u0309", "\\u030a",
     "\\u030b", "\\u030c", "\\u030d", "\\u030e", "\\u030f", "\\u0310",
     "\\u0311", "\\u0312", "\\u0313", "\\u0314", "\\u0315", "\\u0316",
     "\\u0317", "\\u0318", "\\u0319", "\\u031a", "\\u031b", "\\u031c",
     "\\u031d", "\\u031e", "\\u031f", "\\u0320", "\\u0321", "\\u0322",
     "\\u0323", "\\u0324", "\\u0325", "\\u0326", "\\u0327", "\\u0328",
     "\\u0329", "\\u032a", "\\u032b", "\\u032c", "\\u032d", "\\u032e",
     "\\u032f", "\\u0330", "\\u0331", "\\u0332", "\\u0333", "\\u0334",
     "\\u0335", "\\u0336", "\\u0337", "\\u0338", "\\u0339", "\\u033a",
     "\\u033b", "\\u033c", "\\u033d", "\\u033e", "\\u033f", "\\u0340",
     "\\u0341", "\\u0342", "\\u0343", "\\u0344", "\\u0345", "\\u0346",
     "\\u0347", "\\u0348", "\\u0349", "\\u034a", "\\u034b", "\\u034c",
     "\\u034d", "\\u034e", "\\u034f", "\\u0350", "\\u0351", "\\u0352",
     "\\u0353", "\\u0354", "\\u0355", "\\u0356", "\\u0357", "\\u0358",
     "\\u0359", "\\u035a", "\\u035b", "\\u035c", "\\u035d", "\\u035e",
     "\\u035f", "\\u0360", "\\u0361", "\\u0362", "\\u0363", "\\u0364",
     "\\u0365", "\\u0366", "\\u0367", "\\u0368", "\\u0369", "\\u036a",
     "\\u036b", "\\u036c", "\\u036d", "\\u036e", "\\u036f", "\\u0374",
     "\\u0375", "\\u037a", "\\u0384", "\\u0385", "\\u0387", "\\u0483",
     "\\u0484", "\\u0485", "\\u0486", "\\u0487", "\\u0488", "\\u0489",
     "\\u0559", "\\u055f", "\\u0591", "\\u0592", "\\u0593", "\\u0594",
     "\\u0595", "\\u0596", "\\u0597", "\\u0598", "\\u0599", "\\u059a",
     "\\u059b", "\\u059c", "\\u059d", "\\u059e", "\\u059f", "\\u05a0",
     "\\u05a1", "\\u05a2", "\\u05a3", "\\u05a4", "\\u05a5", "\\u05a6",
     "\\u05a7", "\\u05a8", "\\u05a9", "\\u05aa", "\\u05ab", "\\u05ac",
     "\\u05ad", "\\u05ae", "\\u05af", "\\u05b0", "\\u05b1", "\\u05b2",
     "\\u05b3", "\\u05b4", "\\u05b5", "\\u05b6", "\\u05b7", "\\u05b8",
     "\\u05b9", "\\u05ba", "\\u05bb", "\\u05bc", "\\u05bd", "\\u05bf",
     "\\u05c1", "\\u05c2", "\\u05c4", "\\u05c5", "\\u05c7", "\\u05f4",
     "\\u0600", "\\u0601", "\\u0602", "\\u0603", "\\u0604", "\\u0605",
     "\\u0610", "\\u0611", "\\u0612", "\\u0613", "\\u0614", "\\u0615",
     "\\u0616", "\\u0617", "\\u0618", "\\u0619", "\\u061a", "\\u061c",
     "\\u0640", "\\u064b", "\\u064c", "\\u064d", "\\u064e", "\\u064f",
     "\\u0650", "\\u0651", "\\u0652", "\\u0653", "\\u0654", "\\u0655",
     "\\u0656", "\\u0657", "\\u0658", "\\u0659", "\\u065a", "\\u065b",
     "\\u065c", "\\u065d", "\\u065e", "\\u065f", "\\u0670", "\\u06d6",
     "\\u06d7", "\\u06d8", "\\u06d9", "\\u06da", "\\u06db", "\\u06dc",
     "\\u06dd", "\\u06df", "\\u06e0", "\\u06e1", "\\u06e2", "\\u06e3",
     "\\u06e4", "\\u06e5", "\\u06e6", "\\u06e7", "\\u06e8", "\\u06ea",
     "\\u06eb", "\\u06ec", "\\u06ed", "\\u070f", "\\u0711", "\\u0730",
     "\\u0731", "\\u0732", "\\u0733", "\\u0734", "\\u0735", "\\u0736",
     "\\u0737", "\\u0738", "\\u0739", "\\u073a", "\\u073b", "\\u073c",
     "\\u073d", "\\u073e", "\\u073f", "\\u0740", "\\u0741", "\\u0742",
     "\\u0743", "\\u0744", "\\u0745", "\\u0746", "\\u0747", "\\u0748",
     "\\u0749", "\\u074a", "\\u07a6", "\\u07a7", "\\u07a8", "\\u07a9",
     "\\u07aa", "\\u07ab", "\\u07ac", "\\u07ad", "\\u07ae", "\\u07af",
     "\\u07b0", "\\u07eb", "\\u07ec", "\\u07ed", "\\u07ee", "\\u07ef",
     "\\u07f0", "\\u07f1", "\\u07f2", "\\u07f3", "\\u07f4", "\\u07f5",
     "\\u07fa", "\\u07fd", "\\u0816", "\\u0817", "\\u0818", "\\u0819",
     "\\u081a", "\\u081b", "\\u081c", "\\u081d", "\\u081e", "\\u081f",
     "\\u0820", "\\u0821", "\\u0822", "\\u0823", "\\u0824", "\\u0825",
     "\\u0826", "\\u0827", "\\u0828", "\\u0829", "\\u082a", "\\u082b",
     "\\u082c", "\\u082d", "\\u0859", "\\u085a", "\\u085b", "\\u0888",
     "\\u0890", "\\u0891", "\\u0897", "\\u0898", "\\u0899", "\\u089a",
     "\\u089b", "\\u089c", "\\u089d", "\\u089e", "\\u089f", "\\u08c9",
     "\\u08ca", "\\u08cb", "\\u08cc", "\\u08cd", "\\u08ce", "\\u08cf",
     "\\u08d0", "\\u08d1", "\\u08d2", "\\u08d3", "\\u08d4", "\\u08d5",
     "\\u08d6", "\\u08d7", "\\u08d8", "\\u08d9", "\\u08da", "\\u08db",
     "\\u08dc", "\\u08dd", "\\u08de", "\\u08df", "\\u08e0", "\\u08e1",
     "\\u08e2", "\\u08e3", "\\u08e4", "\\u08e5", "\\u08e6", "\\u08e7",
     "\\u08e8", "\\u08e9", "\\u08ea", "\\u08eb", "\\u08ec", "\\u08ed",
     "\\u08ee", "\\u08ef", "\\u08f0", "\\u08f1", "\\u08f2", "\\u08f3",
     "\\u08f4", "\\u08f5", "\\u08f6", "\\u08f7", "\\u08f8", "\\u08f9",
     "\\u08fa", "\\u08fb", "\\u08fc", "\\u08fd", "\\u08fe", "\\u08ff",
     "\\u0900", "\\u0901", "\\u0902", "\\u093a", "\\u093c", "\\u0941",
     "\\u0942", "\\u0943", "\\u0944", "\\u0945", "\\u0946", "\\u0947",
     "\\u0948", "\\u094d", "\\u0951", "\\u0952", "\\u0953", "\\u0954",
     "\\u0955", "\\u0956", "\\u0957", "\\u0962", "\\u0963", "\\u0971",
     "\\u0981", "\\u09bc", "\\u09c1", "\\u09c2", "\\u09c3", "\\u09c4",
     "\\u09cd", "\\u09e2", "\\u09e3", "\\u09fe", "\\u0a01", "\\u0a02",
     "\\u0a3c", "\\u0a41", "\\u0a42", "\\u0a47", "\\u0a48", "\\u0a4b",
     "\\u0a4c", "\\u0a4d", "\\u0a51", "\\u0a70", "\\u0a71", "\\u0a75",
     "\\u0a81", "\\u0a82", "\\u0abc", "\\u0ac1", "\\u0ac2", "\\u0ac3",
     "\\u0ac4", "\\u0ac5", "\\u0ac7", "\\u0ac8", "\\u0acd", "\\u0ae2",
     "\\u0ae3", "\\u0afa", "\\u0afb", "\\u0afc", "\\u0afd", "\\u0afe",
     "\\u0aff", "\\u0b01", "\\u0b3c", "\\u0b3f", "\\u0b41", "\\u0b42",
     "\\u0b43", "\\u0b44", "\\u0b4d", "\\u0b55", "\\u0b56", "\\u0b62",
     "\\u0b63", "\\u0b82", "\\u0bc0", "\\u0bcd", "\\u0c00", "\\u0c04",
     "\\u0c3c", "\\u0c3e", "\\u0c3f", "\\u0c40", "\\u0c46", "\\u0c47",
     "\\u0c48", "\\u0c4a", "\\u0c4b", "\\u0c4c", "\\u0c4d", "\\u0c55",
     "\\u0c56", "\\u0c62", "\\u0c63", "\\u0c81", "\\u0cbc", "\\u0cbf",
     "\\u0cc6", "\\u0ccc", "\\u0ccd", "\\u0ce2", "\\u0ce3", "\\u0d00",
     "\\u0d01", "\\u0d3b", "\\u0d3c", "\\u0d41", "\\u0d42", "\\u0d43",
     "\\u0d44", "\\u0d4d", "\\u0d62", "\\u0d63", "\\u0d81", "\\u0dca",
     "\\u0dd2", "\\u0dd3", "\\u0dd4", "\\u0dd6", "\\u0e31", "\\u0e34",
     "\\u0e35", "\\u0e36", "\\u0e37", "\\u0e38", "\\u0e39", "\\u0e3a",
     "\\u0e46", "\\u0e47", "\\u0e48", "\\u0e49", "\\u0e4a", "\\u0e4b",
     "\\u0e4c", "\\u0e4d", "\\u0e4e", "\\u0eb1", "\\u0eb4", "\\u0eb5",
     "\\u0eb6", "\\u0eb7", "\\u0eb8", "\\u0eb9", "\\u0eba", "\\u0ebb",
     "\\u0ebc", "\\u0ec6", "\\u0ec8", "\\u0ec9", "\\u0eca", "\\u0ecb",
     "\\u0ecc", "\\u0ecd", "\\u0ece", "\\u0f18", "\\u0f19", "\\u0f35",
     "\\u0f37", "\\u0f39", "\\u0f71", "\\u0f72", "\\u0f73", "\\u0f74",
     "\\u0f75", "\\u0f76", "\\u0f77", "\\u0f78", "\\u0f79", "\\u0f7a",
     "\\u0f7b", "\\u0f7c", "\\u0f7d", "\\u0f7e", "\\u0f80", "\\u0f81",
     "\\u0f82", "\\u0f83", "\\u0f84", "\\u0f86", "\\u0f87", "\\u0f8d",
     "\\u0f8e", "\\u0f8f", "\\u0f90", "\\u0f91", "\\u0f92", "\\u0f93",
     "\\u0f94", "\\u0f95", "\\u0f96", "\\u0f97", "\\u0f99", "\\u0f9a",
     "\\u0f9b", "\\u0f9c", "\\u0f9d", "\\u0f9e", "\\u0f9f", "\\u0fa0",
     "\\u0fa1", "\\u0fa2", "\\u0fa3", "\\u0fa4", "\\u0fa5", "\\u0fa6",
     "\\u0fa7", "\\u0fa8", "\\u0fa9", "\\u0faa", "\\u0fab", "\\u0fac",
     "\\u0fad", "\\u0fae", "\\u0faf", "\\u0fb0", "\\u0fb1", "\\u0fb2",
     "\\u0fb3", "\\u0fb4", "\\u0fb5", "\\u0fb6", "\\u0fb7", "\\u0fb8",
     "\\u0fb9", "\\u0fba", "\\u0fbb", "\\u0fbc", "\\u0fc6", "\\u102d",
     "\\u102e", "\\u102f", "\\u1030", "\\u1032", "\\u1033", "\\u1034",
     "\\u1035", "\\u1036", "\\u1037", "\\u1039", "\\u103a", "\\u103d",
     "\\u103e", "\\u1058", "\\u1059", "\\u105e", "\\u105f", "\\u1060",
     "\\u1071", "\\u1072", "\\u1073", "\\u1074", "\\u1082", "\\u1085",
     "\\u1086", "\\u108d", "\\u109d", "\\u10fc", "\\u135d", "\\u135e",
     "\\u135f", "\\u1712", "\\u1713", "\\u1714", "\\u1732", "\\u1733",
     "\\u1752", "\\u1753", "\\u1772", "\\u1773", "\\u17b4", "\\u17b5",
     "\\u17b7", "\\u17b8", "\\u17b9", "\\u17ba", "\\u17bb", "\\u17bc",
     "\\u17bd", "\\u17c6", "\\u17c9", "\\u17ca", "\\u17cb", "\\u17cc",
     "\\u17cd", "\\u17ce", "\\u17cf", "\\u17d0", "\\u17d1", "\\u17d2",
     "\\u17d3", "\\u17d7", "\\u17dd", "\\u180b", "\\u180c", "\\u180d",
     "\\u180e", "\\u180f", "\\u1843", "\\u1885", "\\u1886", "\\u18a9",
     "\\u1920", "\\u1921", "\\u1922", "\\u1927", "\\u1928", "\\u1932",
     "\\u1939", "\\u193a", "\\u193b", "\\u1a17", "\\u1a18", "\\u1a1b",
     "\\u1a56", "\\u1a58", "\\u1a59", "\\u1a5a", "\\u1a5b", "\\u1a5c",
     "\\u1a5d", "\\u1a5e", "\\u1a60", "\\u1a62", "\\u1a65", "\\u1a66",
     "\\u1a67", "\\u1a68", "\\u1a69", "\\u1a6a", "\\u1a6b", "\\u1a6c",
     "\\u1a73", "\\u1a74", "\\u1a75", "\\u1a76", "\\u1a77", "\\u1a78",
     "\\u1a79", "\\u1a7a", "\\u1a7b", "\\u1a7c", "\\u1a7f", "\\u1aa7",
     "\\u1ab0", "\\u1ab1", "\\u1ab2", "\\u1ab3", "\\u1ab4", "\\u1ab5",
     "\\u1ab6", "\\u1ab7", "\\u1ab8", "\\u1ab9", "\\u1aba", "\\u1abb",
     "\\u1abc", "\\u1abd", "\\u1abe", "\\u1abf", "\\u1ac0", "\\u1ac1",
     "\\u1ac2", "\\u1ac3", "\\u1ac4", "\\u1ac5", "\\u1ac6", "\\u1ac7",
     "\\u1ac8", "\\u1ac9", "\\u1aca", "\\u1acb", "\\u1acc", "\\u1acd",
     "\\u1ace", "\\u1acf", "\\u1ad0", "\\u1ad1", "\\u1ad2", "\\u1ad3",
     "\\u1ad4", "\\u1ad5", "\\u1ad6", "\\u1ad7", "\\u1ad8", "\\u1ad9",
     "\\u1ada", "\\u1adb", "\\u1adc", "\\u1add", "\\u1ae0", "\\u1ae1",
     "\\u1ae2", "\\u1ae3", "\\u1ae4", "\\u1ae5", "\\u1ae6", "\\u1ae7",
     "\\u1ae8", "\\u1ae9", "\\u1aea", "\\u1aeb", "\\u1b00", "\\u1b01",
     "\\u1b02", "\\u1b03", "\\u1b34", "\\u1b36", "\\u1b37", "\\u1b38",
     "\\u1b39", "\\u1b3a", "\\u1b3c", "\\u1b42", "\\u1b6b", "\\u1b6c",
     "\\u1b6d", "\\u1b6e", "\\u1b6f", "\\u1b70", "\\u1b71", "\\u1b72",
     "\\u1b73", "\\u1b80", "\\u1b81", "\\u1ba2", "\\u1ba3", "\\u1ba4",
     "\\u1ba5", "\\u1ba8", "\\u1ba9", "\\u1bab", "\\u1bac", "\\u1bad",
     "\\u1be6", "\\u1be8", "\\u1be9", "\\u1bed", "\\u1bef", "\\u1bf0",
     "\\u1bf1", "\\u1c2c", "\\u1c2d", "\\u1c2e", "\\u1c2f", "\\u1c30",
     "\\u1c31", "\\u1c32", "\\u1c33", "\\u1c36", "\\u1c37", "\\u1c78",
     "\\u1c79", "\\u1c7a", "\\u1c7b", "\\u1c7c", "\\u1c7d", "\\u1cd0",
     "\\u1cd1", "\\u1cd2", "\\u1cd4", "\\u1cd5", "\\u1cd6", "\\u1cd7",
     "\\u1cd8", "\\u1cd9", "\\u1cda", "\\u1cdb", "\\u1cdc", "\\u1cdd",
     "\\u1cde", "\\u1cdf", "\\u1ce0", "\\u1ce2", "\\u1ce3", "\\u1ce4",
     "\\u1ce5", "\\u1ce6", "\\u1ce7", "\\u1ce8", "\\u1ced", "\\u1cf4",
     "\\u1cf8", "\\u1cf9", "\\u1d2c", "\\u1d2d", "\\u1d2e", "\\u1d2f",
     "\\u1d30", "\\u1d31", "\\u1d32", "\\u1d33", "\\u1d34", "\\u1d35",
     "\\u1d36", "\\u1d37", "\\u1d38", "\\u1d39", "\\u1d3a", "\\u1d3b",
     "\\u1d3c", "\\u1d3d", "\\u1d3e", "\\u1d3f", "\\u1d40", "\\u1d41",
     "\\u1d42", "\\u1d43", "\\u1d44", "\\u1d45", "\\u1d46", "\\u1d47",
     "\\u1d48", "\\u1d49", "\\u1d4a", "\\u1d4b", "\\u1d4c", "\\u1d4d",
     "\\u1d4e", "\\u1d4f", "\\u1d50", "\\u1d51", "\\u1d52", "\\u1d53",
     "\\u1d54", "\\u1d55", "\\u1d56", "\\u1d57", "\\u1d58", "\\u1d59",
     "\\u1d5a", "\\u1d5b", "\\u1d5c", "\\u1d5d", "\\u1d5e", "\\u1d5f",
     "\\u1d60", "\\u1d61", "\\u1d62", "\\u1d63", "\\u1d64", "\\u1d65",
     "\\u1d66", "\\u1d67", "\\u1d68", "\\u1d69", "\\u1d6a", "\\u1d78",
     "\\u1d9b", "\\u1d9c", "\\u1d9d", "\\u1d9e", "\\u1d9f", "\\u1da0",
     "\\u1da1", "\\u1da2", "\\u1da3", "\\u1da4", "\\u1da5", "\\u1da6",
     "\\u1da7", "\\u1da8", "\\u1da9", "\\u1daa", "\\u1dab", "\\u1dac",
     "\\u1dad", "\\u1dae", "\\u1daf", "\\u1db0", "\\u1db1", "\\u1db2",
     "\\u1db3", "\\u1db4", "\\u1db5", "\\u1db6", "\\u1db7", "\\u1db8",
     "\\u1db9", "\\u1dba", "\\u1dbb", "\\u1dbc", "\\u1dbd", "\\u1dbe",
     "\\u1dbf", "\\u1dc0", "\\u1dc1", "\\u1dc2", "\\u1dc3", "\\u1dc4",
     "\\u1dc5", "\\u1dc6", "\\u1dc7", "\\u1dc8", "\\u1dc9", "\\u1dca",
     "\\u1dcb", "\\u1dcc", "\\u1dcd", "\\u1dce", "\\u1dcf", "\\u1dd0",
     "\\u1dd1", "\\u1dd2", "\\u1dd3", "\\u1dd4", "\\u1dd5", "\\u1dd6",
     "\\u1dd7", "\\u1dd8", "\\u1dd9", "\\u1dda", "\\u1ddb", "\\u1ddc",
     "\\u1ddd", "\\u1dde", "\\u1ddf", "\\u1de0", "\\u1de1", "\\u1de2",
     "\\u1de3", "\\u1de4", "\\u1de5", "\\u1de6", "\\u1de7", "\\u1de8",
     "\\u1de9", "\\u1dea", "\\u1deb", "\\u1dec", "\\u1ded", "\\u1dee",
     "\\u1def", "\\u1df0", "\\u1df1", "\\u1df2", "\\u1df3", "\\u1df4",
     "\\u1df5", "\\u1df6", "\\u1df7", "\\u1df8", "\\u1df9", "\\u1dfa",
     "\\u1dfb", "\\u1dfc", "\\u1dfd", "\\u1dfe", "\\u1dff", "\\u1fbd",
     "\\u1fbf", "\\u1fc0", "\\u1fc1", "\\u1fcd", "\\u1fce", "\\u1fcf",
     "\\u1fdd", "\\u1fde", "\\u1fdf", "\\u1fed", "\\u1fee", "\\u1fef",
     "\\u1ffd", "\\u1ffe", "\\u200b", "\\u200c", "\\u200d", "\\u200e",
     "\\u200f", "\\u2018", "\\u2019", "\\u2024", "\\u2027", "\\u202a",
     "\\u202b", "\\u202c", "\\u202d", "\\u202e", "\\u2060", "\\u2061",
     "\\u2062", "\\u2063", "\\u2064", "\\u2066", "\\u2067", "\\u2068",
     "\\u2069", "\\u206a", "\\u206b", "\\u206c", "\\u206d", "\\u206e",
     "\\u206f", "\\u2071", "\\u207f", "\\u2090", "\\u2091", "\\u2092",
     "\\u2093", "\\u2094", "\\u2095", "\\u2096", "\\u2097", "\\u2098",
     "\\u2099", "\\u209a", "\\u209b", "\\u209c", "\\u20d0", "\\u20d1",
     "\\u20d2", "\\u20d3", "\\u20d4", "\\u20d5", "\\u20d6", "\\u20d7",
     "\\u20d8", "\\u20d9", "\\u20da", "\\u20db", "\\u20dc", "\\u20dd",
     "\\u20de", "\\u20df", "\\u20e0", "\\u20e1", "\\u20e2", "\\u20e3",
     "\\u20e4", "\\u20e5", "\\u20e6", "\\u20e7", "\\u20e8", "\\u20e9",
     "\\u20ea", "\\u20eb", "\\u20ec", "\\u20ed", "\\u20ee", "\\u20ef",
     "\\u20f0", "\\u2c7c", "\\u2c7d", "\\u2cef", "\\u2cf0", "\\u2cf1",
     "\\u2d6f", "\\u2d7f", "\\u2de0", "\\u2de1", "\\u2de2", "\\u2de3",
     "\\u2de4", "\\u2de5", "\\u2de6", "\\u2de7", "\\u2de8", "\\u2de9",
     "\\u2dea", "\\u2deb", "\\u2dec", "\\u2ded", "\\u2dee", "\\u2def",
     "\\u2df0", "\\u2df1", "\\u2df2", "\\u2df3", "\\u2df4", "\\u2df5",
     "\\u2df6", "\\u2df7", "\\u2df8", "\\u2df9", "\\u2dfa", "\\u2dfb",
     "\\u2dfc", "\\u2dfd", "\\u2dfe", "\\u2dff", "\\u2e2f", "\\u3005",
     "\\u302a", "\\u302b", "\\u302c", "\\u302d", "\\u3031", "\\u3032",
     "\\u3033", "\\u3034", "\\u3035", "\\u303b", "\\u3099", "\\u309a",
     "\\u309b", "\\u309c", "\\u309d", "\\u309e", "\\u30fc", "\\u30fd",
     "\\u30fe", "\\ua015", "\\ua4f8", "\\ua4f9", "\\ua4fa", "\\ua4fb",
     "\\ua4fc", "\\ua4fd", "\\ua60c", "\\ua66f", "\\ua670", "\\ua671",
     "\\ua672", "\\ua674", "\\ua675", "\\ua676", "\\ua677", "\\ua678",
     "\\ua679", "\\ua67a", "\\ua67b", "\\ua67c", "\\ua67d", "\\ua67f",
     "\\ua69c", "\\ua69d", "\\ua69e", "\\ua69f", "\\ua6f0", "\\ua6f1",
     "\\ua700", "\\ua701", "\\ua702", "\\ua703", "\\ua704", "\\ua705",
     "\\ua706", "\\ua707", "\\ua708", "\\ua709", "\\ua70a", "\\ua70b",
     "\\ua70c", "\\ua70d", "\\ua70e", "\\ua70f", "\\ua710", "\\ua711",
     "\\ua712", "\\ua713", "\\ua714", "\\ua715", "\\ua716", "\\ua717",
     "\\ua718", "\\ua719", "\\ua71a", "\\ua71b", "\\ua71c", "\\ua71d",
     "\\ua71e", "\\ua71f", "\\ua720", "\\ua721", "\\ua770", "\\ua788",
     "\\ua789", "\\ua78a", "\\ua7f1", "\\ua7f2", "\\ua7f3", "\\ua7f4",
     "\\ua7f8", "\\ua7f9", "\\ua802", "\\ua806", "\\ua80b", "\\ua825",
     "\\ua826", "\\ua82c", "\\ua8c4", "\\ua8c5", "\\ua8e0", "\\ua8e1",
     "\\ua8e2", "\\ua8e3", "\\ua8e4", "\\ua8e5", "\\ua8e6", "\\ua8e7",
     "\\ua8e8", "\\ua8e9", "\\ua8ea", "\\ua8eb", "\\ua8ec", "\\ua8ed",
     "\\ua8ee", "\\ua8ef", "\\ua8f0", "\\ua8f1", "\\ua8ff", "\\ua926",
     "\\ua927", "\\ua928", "\\ua929", "\\ua92a", "\\ua92b", "\\ua92c",
     "\\ua92d", "\\ua947", "\\ua948", "\\ua949", "\\ua94a", "\\ua94b",
     "\\ua94c", "\\ua94d", "\\ua94e", "\\ua94f", "\\ua950", "\\ua951",
     "\\ua980", "\\ua981", "\\ua982", "\\ua9b3", "\\ua9b6", "\\ua9b7",
     "\\ua9b8", "\\ua9b9", "\\ua9bc", "\\ua9bd", "\\ua9cf", "\\ua9e5",
     "\\ua9e6", "\\uaa29", "\\uaa2a", "\\uaa2b", "\\uaa2c", "\\uaa2d",
     "\\uaa2e", "\\uaa31", "\\uaa32", "\\uaa35", "\\uaa36", "\\uaa43",
     "\\uaa4c", "\\uaa70", "\\uaa7c", "\\uaab0", "\\uaab2", "\\uaab3",
     "\\uaab4", "\\uaab7", "\\uaab8", "\\uaabe", "\\uaabf", "\\uaac1",
     "\\uaadd", "\\uaaec", "\\uaaed", "\\uaaf3", "\\uaaf4", "\\uaaf6",
     "\\uab5b", "\\uab5c", "\\uab5d", "\\uab5e", "\\uab5f", "\\uab69",
     "\\uab6a", "\\uab6b", "\\uabe5", "\\uabe8", "\\uabed", "\\ufb1e",
     "\\ufbb2", "\\ufbb3", "\\ufbb4", "\\ufbb5", "\\ufbb6", "\\ufbb7",
     "\\ufbb8", "\\ufbb9", "\\ufbba", "\\ufbbb", "\\ufbbc", "\\ufbbd",
     "\\ufbbe", "\\ufbbf", "\\ufbc0", "\\ufbc1", "\\ufbc2", "\\ufe00",
     "\\ufe01", "\\ufe02", "\\ufe03", "\\ufe04", "\\ufe05", "\\ufe06",
     "\\ufe07", "\\ufe08", "\\ufe09", "\\ufe0a", "\\ufe0b", "\\ufe0c",
     "\\ufe0d", "\\ufe0e", "\\ufe0f", "\\ufe13", "\\ufe20", "\\ufe21",
     "\\ufe22", "\\ufe23", "\\ufe24", "\\ufe25", "\\ufe26", "\\ufe27",
     "\\ufe28", "\\ufe29", "\\ufe2a", "\\ufe2b", "\\ufe2c", "\\ufe2d",
     "\\ufe2e", "\\ufe2f", "\\ufe52", "\\ufe55", "\\ufeff", "\\uff07",
     "\\uff0e", "\\uff1a", "\\uff3e", "\\uff40", "\\uff70", "\\uff9e",
     "\\uff9f", "\\uffe3", "\\ufff9", "\\ufffa", "\\ufffb"}

\* The surrogate pairs that are case-ignorable: the high surrogate and the
\* low surrogate, two entries for a pair.
IgnorableSurrogateList ==
    <<"\\ud800", "\\uddfd", "\\ud800", "\\udee0", "\\ud800", "\\udf76",
     "\\ud800", "\\udf77", "\\ud800", "\\udf78", "\\ud800", "\\udf79",
     "\\ud800", "\\udf7a", "\\ud801", "\\udf80", "\\ud801", "\\udf81",
     "\\ud801", "\\udf82", "\\ud801", "\\udf83", "\\ud801", "\\udf84",
     "\\ud801", "\\udf85", "\\ud801", "\\udf87", "\\ud801", "\\udf88",
     "\\ud801", "\\udf89", "\\ud801", "\\udf8a", "\\ud801", "\\udf8b",
     "\\ud801", "\\udf8c", "\\ud801", "\\udf8d", "\\ud801", "\\udf8e",
     "\\ud801", "\\udf8f", "\\ud801", "\\udf90", "\\ud801", "\\udf91",
     "\\ud801", "\\udf92", "\\ud801", "\\udf93", "\\ud801", "\\udf94",
     "\\ud801", "\\udf95", "\\ud801", "\\udf96", "\\ud801", "\\udf97",
     "\\ud801", "\\udf98", "\\ud801", "\\udf99", "\\ud801", "\\udf9a",
     "\\ud801", "\\udf9b", "\\ud801", "\\udf9c", "\\ud801", "\\udf9d",
     "\\ud801", "\\udf9e", "\\ud801", "\\udf9f", "\\ud801", "\\udfa0",
     "\\ud801", "\\udfa1", "\\ud801", "\\udfa2", "\\ud801", "\\udfa3",
     "\\ud801", "\\udfa4", "\\ud801", "\\udfa5", "\\ud801", "\\udfa6",
     "\\ud801", "\\udfa7", "\\ud801", "\\udfa8", "\\ud801", "\\udfa9",
     "\\ud801", "\\udfaa", "\\ud801", "\\udfab", "\\ud801", "\\udfac",
     "\\ud801", "\\udfad", "\\ud801", "\\udfae", "\\ud801", "\\udfaf",
     "\\ud801", "\\udfb0", "\\ud801", "\\udfb2", "\\ud801", "\\udfb3",
     "\\ud801", "\\udfb4", "\\ud801", "\\udfb5", "\\ud801", "\\udfb6",
     "\\ud801", "\\udfb7", "\\ud801", "\\udfb8", "\\ud801", "\\udfb9",
     "\\ud801", "\\udfba", "\\ud802", "\\ude01", "\\ud802", "\\ude02",
     "\\ud802", "\\ude03", "\\ud802", "\\ude05", "\\ud802", "\\ude06",
     "\\ud802", "\\ude0c", "\\ud802", "\\ude0d", "\\ud802", "\\ude0e",
     "\\ud802", "\\ude0f", "\\ud802", "\\ude38", "\\ud802", "\\ude39",
     "\\ud802", "\\ude3a", "\\ud802", "\\ude3f", "\\ud802", "\\udee5",
     "\\ud802", "\\udee6", "\\ud803", "\\udd24", "\\ud803", "\\udd25",
     "\\ud803", "\\udd26", "\\ud803", "\\udd27", "\\ud803", "\\udd4e",
     "\\ud803", "\\udd69", "\\ud803", "\\udd6a", "\\ud803", "\\udd6b",
     "\\ud803", "\\udd6c", "\\ud803", "\\udd6d", "\\ud803", "\\udd6f",
     "\\ud803", "\\udeab", "\\ud803", "\\udeac", "\\ud803", "\\udec5",
     "\\ud803", "\\udefa", "\\ud803", "\\udefb", "\\ud803", "\\udefc",
     "\\ud803", "\\udefd", "\\ud803", "\\udefe", "\\ud803", "\\udeff",
     "\\ud803", "\\udf46", "\\ud803", "\\udf47", "\\ud803", "\\udf48",
     "\\ud803", "\\udf49", "\\ud803", "\\udf4a", "\\ud803", "\\udf4b",
     "\\ud803", "\\udf4c", "\\ud803", "\\udf4d", "\\ud803", "\\udf4e",
     "\\ud803", "\\udf4f", "\\ud803", "\\udf50", "\\ud803", "\\udf82",
     "\\ud803", "\\udf83", "\\ud803", "\\udf84", "\\ud803", "\\udf85",
     "\\ud804", "\\udc01", "\\ud804", "\\udc38", "\\ud804", "\\udc39",
     "\\ud804", "\\udc3a", "\\ud804", "\\udc3b", "\\ud804", "\\udc3c",
     "\\ud804", "\\udc3d", "\\ud804", "\\udc3e", "\\ud804", "\\udc3f",
     "\\ud804", "\\udc40", "\\ud804", "\\udc41", "\\ud804", "\\udc42",
     "\\ud804", "\\udc43", "\\ud804", "\\udc44", "\\ud804", "\\udc45",
     "\\ud804", "\\udc46", "\\ud804", "\\udc70", "\\ud804", "\\udc73",
     "\\ud804", "\\udc74", "\\ud804", "\\udc7f", "\\ud804", "\\udc80",
     "\\ud804", "\\udc81", "\\ud804", "\\udcb3", "\\ud804", "\\udcb4",
     "\\ud804", "\\udcb5", "\\ud804", "\\udcb6", "\\ud804", "\\udcb9",
     "\\ud804", "\\udcba", "\\ud804", "\\udcbd", "\\ud804", "\\udcc2",
     "\\ud804", "\\udccd", "\\ud804", "\\udd00", "\\ud804", "\\udd01",
     "\\ud804", "\\udd02", "\\ud804", "\\udd27", "\\ud804", "\\udd28",
     "\\ud804", "\\udd29", "\\ud804", "\\udd2a", "\\ud804", "\\udd2b",
     "\\ud804", "\\udd2d", "\\ud804", "\\udd2e", "\\ud804", "\\udd2f",
     "\\ud804", "\\udd30", "\\ud804", "\\udd31", "\\ud804", "\\udd32",
     "\\ud804", "\\udd33", "\\ud804", "\\udd34", "\\ud804", "\\udd73",
     "\\ud804", "\\udd80", "\\ud804", "\\udd81", "\\ud804", "\\uddb6",
     "\\ud804", "\\uddb7", "\\ud804", "\\uddb8", "\\ud804", "\\uddb9",
     "\\ud804", "\\uddba", "\\ud804", "\\uddbb", "\\ud804", "\\uddbc",
     "\\ud804", "\\uddbd", "\\ud804", "\\uddbe", "\\ud804", "\\uddc9",
     "\\ud804", "\\uddca", "\\ud804", "\\uddcb", "\\ud804", "\\uddcc",
     "\\ud804", "\\uddcf", "\\ud804", "\\ude2f", "\\ud804", "\\ude30",
     "\\ud804", "\\ude31", "\\ud804", "\\ude34", "\\ud804", "\\ude36",
     "\\ud804", "\\ude37", "\\ud804", "\\ude3e", "\\ud804", "\\ude41",
     "\\ud804", "\\udedf", "\\ud804", "\\udee3", "\\ud804", "\\udee4",
     "\\ud804", "\\udee5", "\\ud804", "\\udee6", "\\ud804", "\\udee7",
     "\\ud804", "\\udee8", "\\ud804", "\\udee9", "\\ud804", "\\udeea",
     "\\ud804", "\\udf00", "\\ud804", "\\udf01", "\\ud804", "\\udf3b",
     "\\ud804", "\\udf3c", "\\ud804", "\\udf40", "\\ud804", "\\udf66",
     "\\ud804", "\\udf67", "\\ud804", "\\udf68", "\\ud804", "\\udf69",
     "\\ud804", "\\udf6a", "\\ud804", "\\udf6b", "\\ud804", "\\udf6c",
     "\\ud804", "\\udf70", "\\ud804", "\\udf71", "\\ud804", "\\udf72",
     "\\ud804", "\\udf73", "\\ud804", "\\udf74", "\\ud804", "\\udfbb",
     "\\ud804", "\\udfbc", "\\ud804", "\\udfbd", "\\ud804", "\\udfbe",
     "\\ud804", "\\udfbf", "\\ud804", "\\udfc0", "\\ud804", "\\udfce",
     "\\ud804", "\\udfd0", "\\ud804", "\\udfd2", "\\ud804", "\\udfe1",
     "\\ud804", "\\udfe2", "\\ud805", "\\udc38", "\\ud805", "\\udc39",
     "\\ud805", "\\udc3a", "\\ud805", "\\udc3b", "\\ud805", "\\udc3c",
     "\\ud805", "\\udc3d", "\\ud805", "\\udc3e", "\\ud805", "\\udc3f",
     "\\ud805", "\\udc42", "\\ud805", "\\udc43", "\\ud805", "\\udc44",
     "\\ud805", "\\udc46", "\\ud805", "\\udc5e", "\\ud805", "\\udcb3",
     "\\ud805", "\\udcb4", "\\ud805", "\\udcb5", "\\ud805", "\\udcb6",
     "\\ud805", "\\udcb7", "\\ud805", "\\udcb8", "\\ud805", "\\udcba",
     "\\ud805", "\\udcbf", "\\ud805", "\\udcc0", "\\ud805", "\\udcc2",
     "\\ud805", "\\udcc3", "\\ud805", "\\uddb2", "\\ud805", "\\uddb3",
     "\\ud805", "\\uddb4", "\\ud805", "\\uddb5", "\\ud805", "\\uddbc",
     "\\ud805", "\\uddbd", "\\ud805", "\\uddbf", "\\ud805", "\\uddc0",
     "\\ud805", "\\udddc", "\\ud805", "\\udddd", "\\ud805", "\\ude33",
     "\\ud805", "\\ude34", "\\ud805", "\\ude35", "\\ud805", "\\ude36",
     "\\ud805", "\\ude37", "\\ud805", "\\ude38", "\\ud805", "\\ude39",
     "\\ud805", "\\ude3a", "\\ud805", "\\ude3d", "\\ud805", "\\ude3f",
     "\\ud805", "\\ude40", "\\ud805", "\\udeab", "\\ud805", "\\udead",
     "\\ud805", "\\udeb0", "\\ud805", "\\udeb1", "\\ud805", "\\udeb2",
     "\\ud805", "\\udeb3", "\\ud805", "\\udeb4", "\\ud805", "\\udeb5",
     "\\ud805", "\\udeb7", "\\ud805", "\\udf1d", "\\ud805", "\\udf1f",
     "\\ud805", "\\udf22", "\\ud805", "\\udf23", "\\ud805", "\\udf24",
     "\\ud805", "\\udf25", "\\ud805", "\\udf27", "\\ud805", "\\udf28",
     "\\ud805", "\\udf29", "\\ud805", "\\udf2a", "\\ud805", "\\udf2b",
     "\\ud806", "\\udc2f", "\\ud806", "\\udc30", "\\ud806", "\\udc31",
     "\\ud806", "\\udc32", "\\ud806", "\\udc33", "\\ud806", "\\udc34",
     "\\ud806", "\\udc35", "\\ud806", "\\udc36", "\\ud806", "\\udc37",
     "\\ud806", "\\udc39", "\\ud806", "\\udc3a", "\\ud806", "\\udd3b",
     "\\ud806", "\\udd3c", "\\ud806", "\\udd3e", "\\ud806", "\\udd43",
     "\\ud806", "\\uddd4", "\\ud806", "\\uddd5", "\\ud806", "\\uddd6",
     "\\ud806", "\\uddd7", "\\ud806", "\\uddda", "\\ud806", "\\udddb",
     "\\ud806", "\\udde0", "\\ud806", "\\ude01", "\\ud806", "\\ude02",
     "\\ud806", "\\ude03", "\\ud806", "\\ude04", "\\ud806", "\\ude05",
     "\\ud806", "\\ude06", "\\ud806", "\\ude07", "\\ud806", "\\ude08",
     "\\ud806", "\\ude09", "\\ud806", "\\ude0a", "\\ud806", "\\ude33",
     "\\ud806", "\\ude34", "\\ud806", "\\ude35", "\\ud806", "\\ude36",
     "\\ud806", "\\ude37", "\\ud806", "\\ude38", "\\ud806", "\\ude3b",
     "\\ud806", "\\ude3c", "\\ud806", "\\ude3d", "\\ud806", "\\ude3e",
     "\\ud806", "\\ude47", "\\ud806", "\\ude51", "\\ud806", "\\ude52",
     "\\ud806", "\\ude53", "\\ud806", "\\ude54", "\\ud806", "\\ude55",
     "\\ud806", "\\ude56", "\\ud806", "\\ude59", "\\ud806", "\\ude5a",
     "\\ud806", "\\ude5b", "\\ud806", "\\ude8a", "\\ud806", "\\ude8b",
     "\\ud806", "\\ude8c", "\\ud806", "\\ude8d", "\\ud806", "\\ude8e",
     "\\ud806", "\\ude8f", "\\ud806", "\\ude90", "\\ud806", "\\ude91",
     "\\ud806", "\\ude92", "\\ud806", "\\ude93", "\\ud806", "\\ude94",
     "\\ud806", "\\ude95", "\\ud806", "\\ude96", "\\ud806", "\\ude98",
     "\\ud806", "\\ude99", "\\ud806", "\\udf60", "\\ud806", "\\udf62",
     "\\ud806", "\\udf63", "\\ud806", "\\udf64", "\\ud806", "\\udf66",
     "\\ud807", "\\udc30", "\\ud807", "\\udc31", "\\ud807", "\\udc32",
     "\\ud807", "\\udc33", "\\ud807", "\\udc34", "\\ud807", "\\udc35",
     "\\ud807", "\\udc36", "\\ud807", "\\udc38", "\\ud807", "\\udc39",
     "\\ud807", "\\udc3a", "\\ud807", "\\udc3b", "\\ud807", "\\udc3c",
     "\\ud807", "\\udc3d", "\\ud807", "\\udc3f", "\\ud807", "\\udc92",
     "\\ud807", "\\udc93", "\\ud807", "\\udc94", "\\ud807", "\\udc95",
     "\\ud807", "\\udc96", "\\ud807", "\\udc97", "\\ud807", "\\udc98",
     "\\ud807", "\\udc99", "\\ud807", "\\udc9a", "\\ud807", "\\udc9b",
     "\\ud807", "\\udc9c", "\\ud807", "\\udc9d", "\\ud807", "\\udc9e",
     "\\ud807", "\\udc9f", "\\ud807", "\\udca0", "\\ud807", "\\udca1",
     "\\ud807", "\\udca2", "\\ud807", "\\udca3", "\\ud807", "\\udca4",
     "\\ud807", "\\udca5", "\\ud807", "\\udca6", "\\ud807", "\\udca7",
     "\\ud807", "\\udcaa", "\\ud807", "\\udcab", "\\ud807", "\\udcac",
     "\\ud807", "\\udcad", "\\ud807", "\\udcae", "\\ud807", "\\udcaf",
     "\\ud807", "\\udcb0", "\\ud807", "\\udcb2", "\\ud807", "\\udcb3",
     "\\ud807", "\\udcb5", "\\ud807", "\\udcb6", "\\ud807", "\\udd31",
     "\\ud807", "\\udd32", "\\ud807", "\\udd33", "\\ud807", "\\udd34",
     "\\ud807", "\\udd35", "\\ud807", "\\udd36", "\\ud807", "\\udd3a",
     "\\ud807", "\\udd3c", "\\ud807", "\\udd3d", "\\ud807", "\\udd3f",
     "\\ud807", "\\udd40", "\\ud807", "\\udd41", "\\ud807", "\\udd42",
     "\\ud807", "\\udd43", "\\ud807", "\\udd44", "\\ud807", "\\udd45",
     "\\ud807", "\\udd47", "\\ud807", "\\udd90", "\\ud807", "\\udd91",
     "\\ud807", "\\udd95", "\\ud807", "\\udd97", "\\ud807", "\\uddd9",
     "\\ud807", "\\udef3", "\\ud807", "\\udef4", "\\ud807", "\\udf00",
     "\\ud807", "\\udf01", "\\ud807", "\\udf36", "\\ud807", "\\udf37",
     "\\ud807", "\\udf38", "\\ud807", "\\udf39", "\\ud807", "\\udf3a",
     "\\ud807", "\\udf40", "\\ud807", "\\udf42", "\\ud807", "\\udf5a",
     "\\ud80d", "\\udc30", "\\ud80d", "\\udc31", "\\ud80d", "\\udc32",
     "\\ud80d", "\\udc33", "\\ud80d", "\\udc34", "\\ud80d", "\\udc35",
     "\\ud80d", "\\udc36", "\\ud80d", "\\udc37", "\\ud80d", "\\udc38",
     "\\ud80d", "\\udc39", "\\ud80d", "\\udc3a", "\\ud80d", "\\udc3b",
     "\\ud80d", "\\udc3c", "\\ud80d", "\\udc3d", "\\ud80d", "\\udc3e",
     "\\ud80d", "\\udc3f", "\\ud80d", "\\udc40", "\\ud80d", "\\udc47",
     "\\ud80d", "\\udc48", "\\ud80d", "\\udc49", "\\ud80d", "\\udc4a",
     "\\ud80d", "\\udc4b", "\\ud80d", "\\udc4c", "\\ud80d", "\\udc4d",
     "\\ud80d", "\\udc4e", "\\ud80d", "\\udc4f", "\\ud80d", "\\udc50",
     "\\ud80d", "\\udc51", "\\ud80d", "\\udc52", "\\ud80d", "\\udc53",
     "\\ud80d", "\\udc54", "\\ud80d", "\\udc55", "\\ud818", "\\udd1e",
     "\\ud818", "\\udd1f", "\\ud818", "\\udd20", "\\ud818", "\\udd21",
     "\\ud818", "\\udd22", "\\ud818", "\\udd23", "\\ud818", "\\udd24",
     "\\ud818", "\\udd25", "\\ud818", "\\udd26", "\\ud818", "\\udd27",
     "\\ud818", "\\udd28", "\\ud818", "\\udd29", "\\ud818", "\\udd2d",
     "\\ud818", "\\udd2e", "\\ud818", "\\udd2f", "\\ud81a", "\\udef0",
     "\\ud81a", "\\udef1", "\\ud81a", "\\udef2", "\\ud81a", "\\udef3",
     "\\ud81a", "\\udef4", "\\ud81a", "\\udf30", "\\ud81a", "\\udf31",
     "\\ud81a", "\\udf32", "\\ud81a", "\\udf33", "\\ud81a", "\\udf34",
     "\\ud81a", "\\udf35", "\\ud81a", "\\udf36", "\\ud81a", "\\udf40",
     "\\ud81a", "\\udf41", "\\ud81a", "\\udf42", "\\ud81a", "\\udf43",
     "\\ud81b", "\\udd40", "\\ud81b", "\\udd41", "\\ud81b", "\\udd42",
     "\\ud81b", "\\udd6b", "\\ud81b", "\\udd6c", "\\ud81b", "\\udf4f",
     "\\ud81b", "\\udf8f", "\\ud81b", "\\udf90", "\\ud81b", "\\udf91",
     "\\ud81b", "\\udf92", "\\ud81b", "\\udf93", "\\ud81b", "\\udf94",
     "\\ud81b", "\\udf95", "\\ud81b", "\\udf96", "\\ud81b", "\\udf97",
     "\\ud81b", "\\udf98", "\\ud81b", "\\udf99", "\\ud81b", "\\udf9a",
     "\\ud81b", "\\udf9b", "\\ud81b", "\\udf9c", "\\ud81b", "\\udf9d",
     "\\ud81b", "\\udf9e", "\\ud81b", "\\udf9f", "\\ud81b", "\\udfe0",
     "\\ud81b", "\\udfe1", "\\ud81b", "\\udfe3", "\\ud81b", "\\udfe4",
     "\\ud81b", "\\udff2", "\\ud81b", "\\udff3", "\\ud82b", "\\udff0",
     "\\ud82b", "\\udff1", "\\ud82b", "\\udff2", "\\ud82b", "\\udff3",
     "\\ud82b", "\\udff5", "\\ud82b", "\\udff6", "\\ud82b", "\\udff7",
     "\\ud82b", "\\udff8", "\\ud82b", "\\udff9", "\\ud82b", "\\udffa",
     "\\ud82b", "\\udffb", "\\ud82b", "\\udffd", "\\ud82b", "\\udffe",
     "\\ud82f", "\\udc9d", "\\ud82f", "\\udc9e", "\\ud82f", "\\udca0",
     "\\ud82f", "\\udca1", "\\ud82f", "\\udca2", "\\ud82f", "\\udca3",
     "\\ud833", "\\udf00", "\\ud833", "\\udf01", "\\ud833", "\\udf02",
     "\\ud833", "\\udf03", "\\ud833", "\\udf04", "\\ud833", "\\udf05",
     "\\ud833", "\\udf06", "\\ud833", "\\udf07", "\\ud833", "\\udf08",
     "\\ud833", "\\udf09", "\\ud833", "\\udf0a", "\\ud833", "\\udf0b",
     "\\ud833", "\\udf0c", "\\ud833", "\\udf0d", "\\ud833", "\\udf0e",
     "\\ud833", "\\udf0f", "\\ud833", "\\udf10", "\\ud833", "\\udf11",
     "\\ud833", "\\udf12", "\\ud833", "\\udf13", "\\ud833", "\\udf14",
     "\\ud833", "\\udf15", "\\ud833", "\\udf16", "\\ud833", "\\udf17",
     "\\ud833", "\\udf18", "\\ud833", "\\udf19", "\\ud833", "\\udf1a",
     "\\ud833", "\\udf1b", "\\ud833", "\\udf1c", "\\ud833", "\\udf1d",
     "\\ud833", "\\udf1e", "\\ud833", "\\udf1f", "\\ud833", "\\udf20",
     "\\ud833", "\\udf21", "\\ud833", "\\udf22", "\\ud833", "\\udf23",
     "\\ud833", "\\udf24", "\\ud833", "\\udf25", "\\ud833", "\\udf26",
     "\\ud833", "\\udf27", "\\ud833", "\\udf28", "\\ud833", "\\udf29",
     "\\ud833", "\\udf2a", "\\ud833", "\\udf2b", "\\ud833", "\\udf2c",
     "\\ud833", "\\udf2d", "\\ud833", "\\udf30", "\\ud833", "\\udf31",
     "\\ud833", "\\udf32", "\\ud833", "\\udf33", "\\ud833", "\\udf34",
     "\\ud833", "\\udf35", "\\ud833", "\\udf36", "\\ud833", "\\udf37",
     "\\ud833", "\\udf38", "\\ud833", "\\udf39", "\\ud833", "\\udf3a",
     "\\ud833", "\\udf3b", "\\ud833", "\\udf3c", "\\ud833", "\\udf3d",
     "\\ud833", "\\udf3e", "\\ud833", "\\udf3f", "\\ud833", "\\udf40",
     "\\ud833", "\\udf41", "\\ud833", "\\udf42", "\\ud833", "\\udf43",
     "\\ud833", "\\udf44", "\\ud833", "\\udf45", "\\ud833", "\\udf46",
     "\\ud834", "\\udd67", "\\ud834", "\\udd68", "\\ud834", "\\udd69",
     "\\ud834", "\\udd73", "\\ud834", "\\udd74", "\\ud834", "\\udd75",
     "\\ud834", "\\udd76", "\\ud834", "\\udd77", "\\ud834", "\\udd78",
     "\\ud834", "\\udd79", "\\ud834", "\\udd7a", "\\ud834", "\\udd7b",
     "\\ud834", "\\udd7c", "\\ud834", "\\udd7d", "\\ud834", "\\udd7e",
     "\\ud834", "\\udd7f", "\\ud834", "\\udd80", "\\ud834", "\\udd81",
     "\\ud834", "\\udd82", "\\ud834", "\\udd85", "\\ud834", "\\udd86",
     "\\ud834", "\\udd87", "\\ud834", "\\udd88", "\\ud834", "\\udd89",
     "\\ud834", "\\udd8a", "\\ud834", "\\udd8b", "\\ud834", "\\uddaa",
     "\\ud834", "\\uddab", "\\ud834", "\\uddac", "\\ud834", "\\uddad",
     "\\ud834", "\\ude42", "\\ud834", "\\ude43", "\\ud834", "\\ude44",
     "\\ud836", "\\ude00", "\\ud836", "\\ude01", "\\ud836", "\\ude02",
     "\\ud836", "\\ude03", "\\ud836", "\\ude04", "\\ud836", "\\ude05",
     "\\ud836", "\\ude06", "\\ud836", "\\ude07", "\\ud836", "\\ude08",
     "\\ud836", "\\ude09", "\\ud836", "\\ude0a", "\\ud836", "\\ude0b",
     "\\ud836", "\\ude0c", "\\ud836", "\\ude0d", "\\ud836", "\\ude0e",
     "\\ud836", "\\ude0f", "\\ud836", "\\ude10", "\\ud836", "\\ude11",
     "\\ud836", "\\ude12", "\\ud836", "\\ude13", "\\ud836", "\\ude14",
     "\\ud836", "\\ude15", "\\ud836", "\\ude16", "\\ud836", "\\ude17",
     "\\ud836", "\\ude18", "\\ud836", "\\ude19", "\\ud836", "\\ude1a",
     "\\ud836", "\\ude1b", "\\ud836", "\\ude1c", "\\ud836", "\\ude1d",
     "\\ud836", "\\ude1e", "\\ud836", "\\ude1f", "\\ud836", "\\ude20",
     "\\ud836", "\\ude21", "\\ud836", "\\ude22", "\\ud836", "\\ude23",
     "\\ud836", "\\ude24", "\\ud836", "\\ude25", "\\ud836", "\\ude26",
     "\\ud836", "\\ude27", "\\ud836", "\\ude28", "\\ud836", "\\ude29",
     "\\ud836", "\\ude2a", "\\ud836", "\\ude2b", "\\ud836", "\\ude2c",
     "\\ud836", "\\ude2d", "\\ud836", "\\ude2e", "\\ud836", "\\ude2f",
     "\\ud836", "\\ude30", "\\ud836", "\\ude31", "\\ud836", "\\ude32",
     "\\ud836", "\\ude33", "\\ud836", "\\ude34", "\\ud836", "\\ude35",
     "\\ud836", "\\ude36", "\\ud836", "\\ude3b", "\\ud836", "\\ude3c",
     "\\ud836", "\\ude3d", "\\ud836", "\\ude3e", "\\ud836", "\\ude3f",
     "\\ud836", "\\ude40", "\\ud836", "\\ude41", "\\ud836", "\\ude42",
     "\\ud836", "\\ude43", "\\ud836", "\\ude44", "\\ud836", "\\ude45",
     "\\ud836", "\\ude46", "\\ud836", "\\ude47", "\\ud836", "\\ude48",
     "\\ud836", "\\ude49", "\\ud836", "\\ude4a", "\\ud836", "\\ude4b",
     "\\ud836", "\\ude4c", "\\ud836", "\\ude4d", "\\ud836", "\\ude4e",
     "\\ud836", "\\ude4f", "\\ud836", "\\ude50", "\\ud836", "\\ude51",
     "\\ud836", "\\ude52", "\\ud836", "\\ude53", "\\ud836", "\\ude54",
     "\\ud836", "\\ude55", "\\ud836", "\\ude56", "\\ud836", "\\ude57",
     "\\ud836", "\\ude58", "\\ud836", "\\ude59", "\\ud836", "\\ude5a",
     "\\ud836", "\\ude5b", "\\ud836", "\\ude5c", "\\ud836", "\\ude5d",
     "\\ud836", "\\ude5e", "\\ud836", "\\ude5f", "\\ud836", "\\ude60",
     "\\ud836", "\\ude61", "\\ud836", "\\ude62", "\\ud836", "\\ude63",
     "\\ud836", "\\ude64", "\\ud836", "\\ude65", "\\ud836", "\\ude66",
     "\\ud836", "\\ude67", "\\ud836", "\\ude68", "\\ud836", "\\ude69",
     "\\ud836", "\\ude6a", "\\ud836", "\\ude6b", "\\ud836", "\\ude6c",
     "\\ud836", "\\ude75", "\\ud836", "\\ude84", "\\ud836", "\\ude9b",
     "\\ud836", "\\ude9c", "\\ud836", "\\ude9d", "\\ud836", "\\ude9e",
     "\\ud836", "\\ude9f", "\\ud836", "\\udea1", "\\ud836", "\\udea2",
     "\\ud836", "\\udea3", "\\ud836", "\\udea4", "\\ud836", "\\udea5",
     "\\ud836", "\\udea6", "\\ud836", "\\udea7", "\\ud836", "\\udea8",
     "\\ud836", "\\udea9", "\\ud836", "\\udeaa", "\\ud836", "\\udeab",
     "\\ud836", "\\udeac", "\\ud836", "\\udead", "\\ud836", "\\udeae",
     "\\ud836", "\\udeaf", "\\ud838", "\\udc00", "\\ud838", "\\udc01",
     "\\ud838", "\\udc02", "\\ud838", "\\udc03", "\\ud838", "\\udc04",
     "\\ud838", "\\udc05", "\\ud838", "\\udc06", "\\ud838", "\\udc08",
     "\\ud838", "\\udc09", "\\ud838", "\\udc0a", "\\ud838", "\\udc0b",
     "\\ud838", "\\udc0c", "\\ud838", "\\udc0d", "\\ud838", "\\udc0e",
     "\\ud838", "\\udc0f", "\\ud838", "\\udc10", "\\ud838", "\\udc11",
     "\\ud838", "\\udc12", "\\ud838", "\\udc13", "\\ud838", "\\udc14",
     "\\ud838", "\\udc15", "\\ud838", "\\udc16", "\\ud838", "\\udc17",
     "\\ud838", "\\udc18", "\\ud838", "\\udc1b", "\\ud838", "\\udc1c",
     "\\ud838", "\\udc1d", "\\ud838", "\\udc1e", "\\ud838", "\\udc1f",
     "\\ud838", "\\udc20", "\\ud838", "\\udc21", "\\ud838", "\\udc23",
     "\\ud838", "\\udc24", "\\ud838", "\\udc26", "\\ud838", "\\udc27",
     "\\ud838", "\\udc28", "\\ud838", "\\udc29", "\\ud838", "\\udc2a",
     "\\ud838", "\\udc30", "\\ud838", "\\udc31", "\\ud838", "\\udc32",
     "\\ud838", "\\udc33", "\\ud838", "\\udc34", "\\ud838", "\\udc35",
     "\\ud838", "\\udc36", "\\ud838", "\\udc37", "\\ud838", "\\udc38",
     "\\ud838", "\\udc39", "\\ud838", "\\udc3a", "\\ud838", "\\udc3b",
     "\\ud838", "\\udc3c", "\\ud838", "\\udc3d", "\\ud838", "\\udc3e",
     "\\ud838", "\\udc3f", "\\ud838", "\\udc40", "\\ud838", "\\udc41",
     "\\ud838", "\\udc42", "\\ud838", "\\udc43", "\\ud838", "\\udc44",
     "\\ud838", "\\udc45", "\\ud838", "\\udc46", "\\ud838", "\\udc47",
     "\\ud838", "\\udc48", "\\ud838", "\\udc49", "\\ud838", "\\udc4a",
     "\\ud838", "\\udc4b", "\\ud838", "\\udc4c", "\\ud838", "\\udc4d",
     "\\ud838", "\\udc4e", "\\ud838", "\\udc4f", "\\ud838", "\\udc50",
     "\\ud838", "\\udc51", "\\ud838", "\\udc52", "\\ud838", "\\udc53",
     "\\ud838", "\\udc54", "\\ud838", "\\udc55", "\\ud838", "\\udc56",
     "\\ud838", "\\udc57", "\\ud838", "\\udc58", "\\ud838", "\\udc59",
     "\\ud838", "\\udc5a", "\\ud838", "\\udc5b", "\\ud838", "\\udc5c",
     "\\ud838", "\\udc5d", "\\ud838", "\\udc5e", "\\ud838", "\\udc5f",
     "\\ud838", "\\udc60", "\\ud838", "\\udc61", "\\ud838", "\\udc62",
     "\\ud838", "\\udc63", "\\ud838", "\\udc64", "\\ud838", "\\udc65",
     "\\ud838", "\\udc66", "\\ud838", "\\udc67", "\\ud838", "\\udc68",
     "\\ud838", "\\udc69", "\\ud838", "\\udc6a", "\\ud838", "\\udc6b",
     "\\ud838", "\\udc6c", "\\ud838", "\\udc6d", "\\ud838", "\\udc8f",
     "\\ud838", "\\udd30", "\\ud838", "\\udd31", "\\ud838", "\\udd32",
     "\\ud838", "\\udd33", "\\ud838", "\\udd34", "\\ud838", "\\udd35",
     "\\ud838", "\\udd36", "\\ud838", "\\udd37", "\\ud838", "\\udd38",
     "\\ud838", "\\udd39", "\\ud838", "\\udd3a", "\\ud838", "\\udd3b",
     "\\ud838", "\\udd3c", "\\ud838", "\\udd3d", "\\ud838", "\\udeae",
     "\\ud838", "\\udeec", "\\ud838", "\\udeed", "\\ud838", "\\udeee",
     "\\ud838", "\\udeef", "\\ud839", "\\udceb", "\\ud839", "\\udcec",
     "\\ud839", "\\udced", "\\ud839", "\\udcee", "\\ud839", "\\udcef",
     "\\ud839", "\\uddee", "\\ud839", "\\uddef", "\\ud839", "\\udee3",
     "\\ud839", "\\udee6", "\\ud839", "\\udeee", "\\ud839", "\\udeef",
     "\\ud839", "\\udef5", "\\ud839", "\\udeff", "\\ud83a", "\\udcd0",
     "\\ud83a", "\\udcd1", "\\ud83a", "\\udcd2", "\\ud83a", "\\udcd3",
     "\\ud83a", "\\udcd4", "\\ud83a", "\\udcd5", "\\ud83a", "\\udcd6",
     "\\ud83a", "\\udd44", "\\ud83a", "\\udd45", "\\ud83a", "\\udd46",
     "\\ud83a", "\\udd47", "\\ud83a", "\\udd48", "\\ud83a", "\\udd49",
     "\\ud83a", "\\udd4a", "\\ud83a", "\\udd4b", "\\ud83c", "\\udffb",
     "\\ud83c", "\\udffc", "\\ud83c", "\\udffd", "\\ud83c", "\\udffe",
     "\\ud83c", "\\udfff", "\\udb40", "\\udc01", "\\udb40", "\\udc20",
     "\\udb40", "\\udc21", "\\udb40", "\\udc22", "\\udb40", "\\udc23",
     "\\udb40", "\\udc24", "\\udb40", "\\udc25", "\\udb40", "\\udc26",
     "\\udb40", "\\udc27", "\\udb40", "\\udc28", "\\udb40", "\\udc29",
     "\\udb40", "\\udc2a", "\\udb40", "\\udc2b", "\\udb40", "\\udc2c",
     "\\udb40", "\\udc2d", "\\udb40", "\\udc2e", "\\udb40", "\\udc2f",
     "\\udb40", "\\udc30", "\\udb40", "\\udc31", "\\udb40", "\\udc32",
     "\\udb40", "\\udc33", "\\udb40", "\\udc34", "\\udb40", "\\udc35",
     "\\udb40", "\\udc36", "\\udb40", "\\udc37", "\\udb40", "\\udc38",
     "\\udb40", "\\udc39", "\\udb40", "\\udc3a", "\\udb40", "\\udc3b",
     "\\udb40", "\\udc3c", "\\udb40", "\\udc3d", "\\udb40", "\\udc3e",
     "\\udb40", "\\udc3f", "\\udb40", "\\udc40", "\\udb40", "\\udc41",
     "\\udb40", "\\udc42", "\\udb40", "\\udc43", "\\udb40", "\\udc44",
     "\\udb40", "\\udc45", "\\udb40", "\\udc46", "\\udb40", "\\udc47",
     "\\udb40", "\\udc48", "\\udb40", "\\udc49", "\\udb40", "\\udc4a",
     "\\udb40", "\\udc4b", "\\udb40", "\\udc4c", "\\udb40", "\\udc4d",
     "\\udb40", "\\udc4e", "\\udb40", "\\udc4f", "\\udb40", "\\udc50",
     "\\udb40", "\\udc51", "\\udb40", "\\udc52", "\\udb40", "\\udc53",
     "\\udb40", "\\udc54", "\\udb40", "\\udc55", "\\udb40", "\\udc56",
     "\\udb40", "\\udc57", "\\udb40", "\\udc58", "\\udb40", "\\udc59",
     "\\udb40", "\\udc5a", "\\udb40", "\\udc5b", "\\udb40", "\\udc5c",
     "\\udb40", "\\udc5d", "\\udb40", "\\udc5e", "\\udb40", "\\udc5f",
     "\\udb40", "\\udc60", "\\udb40", "\\udc61", "\\udb40", "\\udc62",
     "\\udb40", "\\udc63", "\\udb40", "\\udc64", "\\udb40", "\\udc65",
     "\\udb40", "\\udc66", "\\udb40", "\\udc67", "\\udb40", "\\udc68",
     "\\udb40", "\\udc69", "\\udb40", "\\udc6a", "\\udb40", "\\udc6b",
     "\\udb40", "\\udc6c", "\\udb40", "\\udc6d", "\\udb40", "\\udc6e",
     "\\udb40", "\\udc6f", "\\udb40", "\\udc70", "\\udb40", "\\udc71",
     "\\udb40", "\\udc72", "\\udb40", "\\udc73", "\\udb40", "\\udc74",
     "\\udb40", "\\udc75", "\\udb40", "\\udc76", "\\udb40", "\\udc77",
     "\\udb40", "\\udc78", "\\udb40", "\\udc79", "\\udb40", "\\udc7a",
     "\\udb40", "\\udc7b", "\\udb40", "\\udc7c", "\\udb40", "\\udc7d",
     "\\udb40", "\\udc7e", "\\udb40", "\\udc7f", "\\udb40", "\\udd00",
     "\\udb40", "\\udd01", "\\udb40", "\\udd02", "\\udb40", "\\udd03",
     "\\udb40", "\\udd04", "\\udb40", "\\udd05", "\\udb40", "\\udd06",
     "\\udb40", "\\udd07", "\\udb40", "\\udd08", "\\udb40", "\\udd09",
     "\\udb40", "\\udd0a", "\\udb40", "\\udd0b", "\\udb40", "\\udd0c",
     "\\udb40", "\\udd0d", "\\udb40", "\\udd0e", "\\udb40", "\\udd0f",
     "\\udb40", "\\udd10", "\\udb40", "\\udd11", "\\udb40", "\\udd12",
     "\\udb40", "\\udd13", "\\udb40", "\\udd14", "\\udb40", "\\udd15",
     "\\udb40", "\\udd16", "\\udb40", "\\udd17", "\\udb40", "\\udd18",
     "\\udb40", "\\udd19", "\\udb40", "\\udd1a", "\\udb40", "\\udd1b",
     "\\udb40", "\\udd1c", "\\udb40", "\\udd1d", "\\udb40", "\\udd1e",
     "\\udb40", "\\udd1f", "\\udb40", "\\udd20", "\\udb40", "\\udd21",
     "\\udb40", "\\udd22", "\\udb40", "\\udd23", "\\udb40", "\\udd24",
     "\\udb40", "\\udd25", "\\udb40", "\\udd26", "\\udb40", "\\udd27",
     "\\udb40", "\\udd28", "\\udb40", "\\udd29", "\\udb40", "\\udd2a",
     "\\udb40", "\\udd2b", "\\udb40", "\\udd2c", "\\udb40", "\\udd2d",
     "\\udb40", "\\udd2e", "\\udb40", "\\udd2f", "\\udb40", "\\udd30",
     "\\udb40", "\\udd31", "\\udb40", "\\udd32", "\\udb40", "\\udd33",
     "\\udb40", "\\udd34", "\\udb40", "\\udd35", "\\udb40", "\\udd36",
     "\\udb40", "\\udd37", "\\udb40", "\\udd38", "\\udb40", "\\udd39",
     "\\udb40", "\\udd3a", "\\udb40", "\\udd3b", "\\udb40", "\\udd3c",
     "\\udb40", "\\udd3d", "\\udb40", "\\udd3e", "\\udb40", "\\udd3f",
     "\\udb40", "\\udd40", "\\udb40", "\\udd41", "\\udb40", "\\udd42",
     "\\udb40", "\\udd43", "\\udb40", "\\udd44", "\\udb40", "\\udd45",
     "\\udb40", "\\udd46", "\\udb40", "\\udd47", "\\udb40", "\\udd48",
     "\\udb40", "\\udd49", "\\udb40", "\\udd4a", "\\udb40", "\\udd4b",
     "\\udb40", "\\udd4c", "\\udb40", "\\udd4d", "\\udb40", "\\udd4e",
     "\\udb40", "\\udd4f", "\\udb40", "\\udd50", "\\udb40", "\\udd51",
     "\\udb40", "\\udd52", "\\udb40", "\\udd53", "\\udb40", "\\udd54",
     "\\udb40", "\\udd55", "\\udb40", "\\udd56", "\\udb40", "\\udd57",
     "\\udb40", "\\udd58", "\\udb40", "\\udd59", "\\udb40", "\\udd5a",
     "\\udb40", "\\udd5b", "\\udb40", "\\udd5c", "\\udb40", "\\udd5d",
     "\\udb40", "\\udd5e", "\\udb40", "\\udd5f", "\\udb40", "\\udd60",
     "\\udb40", "\\udd61", "\\udb40", "\\udd62", "\\udb40", "\\udd63",
     "\\udb40", "\\udd64", "\\udb40", "\\udd65", "\\udb40", "\\udd66",
     "\\udb40", "\\udd67", "\\udb40", "\\udd68", "\\udb40", "\\udd69",
     "\\udb40", "\\udd6a", "\\udb40", "\\udd6b", "\\udb40", "\\udd6c",
     "\\udb40", "\\udd6d", "\\udb40", "\\udd6e", "\\udb40", "\\udd6f",
     "\\udb40", "\\udd70", "\\udb40", "\\udd71", "\\udb40", "\\udd72",
     "\\udb40", "\\udd73", "\\udb40", "\\udd74", "\\udb40", "\\udd75",
     "\\udb40", "\\udd76", "\\udb40", "\\udd77", "\\udb40", "\\udd78",
     "\\udb40", "\\udd79", "\\udb40", "\\udd7a", "\\udb40", "\\udd7b",
     "\\udb40", "\\udd7c", "\\udb40", "\\udd7d", "\\udb40", "\\udd7e",
     "\\udb40", "\\udd7f", "\\udb40", "\\udd80", "\\udb40", "\\udd81",
     "\\udb40", "\\udd82", "\\udb40", "\\udd83", "\\udb40", "\\udd84",
     "\\udb40", "\\udd85", "\\udb40", "\\udd86", "\\udb40", "\\udd87",
     "\\udb40", "\\udd88", "\\udb40", "\\udd89", "\\udb40", "\\udd8a",
     "\\udb40", "\\udd8b", "\\udb40", "\\udd8c", "\\udb40", "\\udd8d",
     "\\udb40", "\\udd8e", "\\udb40", "\\udd8f", "\\udb40", "\\udd90",
     "\\udb40", "\\udd91", "\\udb40", "\\udd92", "\\udb40", "\\udd93",
     "\\udb40", "\\udd94", "\\udb40", "\\udd95", "\\udb40", "\\udd96",
     "\\udb40", "\\udd97", "\\udb40", "\\udd98", "\\udb40", "\\udd99",
     "\\udb40", "\\udd9a", "\\udb40", "\\udd9b", "\\udb40", "\\udd9c",
     "\\udb40", "\\udd9d", "\\udb40", "\\udd9e", "\\udb40", "\\udd9f",
     "\\udb40", "\\udda0", "\\udb40", "\\udda1", "\\udb40", "\\udda2",
     "\\udb40", "\\udda3", "\\udb40", "\\udda4", "\\udb40", "\\udda5",
     "\\udb40", "\\udda6", "\\udb40", "\\udda7", "\\udb40", "\\udda8",
     "\\udb40", "\\udda9", "\\udb40", "\\uddaa", "\\udb40", "\\uddab",
     "\\udb40", "\\uddac", "\\udb40", "\\uddad", "\\udb40", "\\uddae",
     "\\udb40", "\\uddaf", "\\udb40", "\\uddb0", "\\udb40", "\\uddb1",
     "\\udb40", "\\uddb2", "\\udb40", "\\uddb3", "\\udb40", "\\uddb4",
     "\\udb40", "\\uddb5", "\\udb40", "\\uddb6", "\\udb40", "\\uddb7",
     "\\udb40", "\\uddb8", "\\udb40", "\\uddb9", "\\udb40", "\\uddba",
     "\\udb40", "\\uddbb", "\\udb40", "\\uddbc", "\\udb40", "\\uddbd",
     "\\udb40", "\\uddbe", "\\udb40", "\\uddbf", "\\udb40", "\\uddc0",
     "\\udb40", "\\uddc1", "\\udb40", "\\uddc2", "\\udb40", "\\uddc3",
     "\\udb40", "\\uddc4", "\\udb40", "\\uddc5", "\\udb40", "\\uddc6",
     "\\udb40", "\\uddc7", "\\udb40", "\\uddc8", "\\udb40", "\\uddc9",
     "\\udb40", "\\uddca", "\\udb40", "\\uddcb", "\\udb40", "\\uddcc",
     "\\udb40", "\\uddcd", "\\udb40", "\\uddce", "\\udb40", "\\uddcf",
     "\\udb40", "\\uddd0", "\\udb40", "\\uddd1", "\\udb40", "\\uddd2",
     "\\udb40", "\\uddd3", "\\udb40", "\\uddd4", "\\udb40", "\\uddd5",
     "\\udb40", "\\uddd6", "\\udb40", "\\uddd7", "\\udb40", "\\uddd8",
     "\\udb40", "\\uddd9", "\\udb40", "\\uddda", "\\udb40", "\\udddb",
     "\\udb40", "\\udddc", "\\udb40", "\\udddd", "\\udb40", "\\uddde",
     "\\udb40", "\\udddf", "\\udb40", "\\udde0", "\\udb40", "\\udde1",
     "\\udb40", "\\udde2", "\\udb40", "\\udde3", "\\udb40", "\\udde4",
     "\\udb40", "\\udde5", "\\udb40", "\\udde6", "\\udb40", "\\udde7",
     "\\udb40", "\\udde8", "\\udb40", "\\udde9", "\\udb40", "\\uddea",
     "\\udb40", "\\uddeb", "\\udb40", "\\uddec", "\\udb40", "\\udded",
     "\\udb40", "\\uddee", "\\udb40", "\\uddef">>

\* the pairs of a list that holds two entries for a pair
pairsOf(list) ==
    {<<list[2 * k - 1], list[2 * k]>> : k \in 1..(Len(list) \div 2)}

\* the triples of a list that holds three entries for a triple
triplesOf(list) ==
    {<<list[3 * k - 2], list[3 * k - 1], list[3 * k]>> :
        k \in 1..(Len(list) \div 3)}

\* the value of a table at a key, and a default for a key it does not hold
formOf(table, key, default) ==
    IF key \in DOMAIN table THEN table[key] ELSE default

\* the table of a set of pairs: the first entry of a pair is the key, the
\* second its lower-case form
unitTable(pairs) ==
    [u \in {p[1] : p \in pairs} |-> (CHOOSE p \in pairs : p[1] = u)[2]]

\* the table of a set of triples: the key is a surrogate pair, its form the
\* same high surrogate and the third entry
pairTable(triples) ==
    [q \in {<<p[1], p[2]>> : p \in triples} |->
        <<q[1], (CHOOSE p \in triples : p[1] = q[1] /\ p[2] = q[2])[3]>>]

\* the lower-case form of a code unit that has one of one code unit
LowerOfUnit ==
    unitTable(pairsOf(LowerPairList))

\* the lower-case form of a surrogate pair that has one
LowerOfSurrogates ==
    pairTable(triplesOf(LowerSurrogateList))

CasedSurrogates ==
    pairsOf(CasedSurrogateList)

IgnorableSurrogates ==
    pairsOf(IgnorableSurrogateList)

\* the two code units of a surrogate pair that is met at position j when the
\* text is read in the direction of step (1 forwards, -1 backwards); no
\* text at an end of the text
pairAt(s, j, step) ==
    IF step = 1
    THEN (IF j < Len(s) THEN <<s[j], s[j + 1]>> ELSE <<>>)
    ELSE (IF j > 1 THEN <<s[j - 1], s[j]>> ELSE <<>>)

\* what stands at a position of the text: pair holds the two code units met
\* there, unit the code unit of the position
caseClass(pair, unit) ==
    IF pair \in IgnorableSurrogates THEN "ignorable pair"
    ELSE IF unit \in IgnorableUnits THEN "ignorable"
    ELSE IF pair \in CasedSurrogates \/ unit \in CasedUnits THEN "cased"
    ELSE "other"

\* reading from position j in the direction of step, the text holds
\* case-ignorable characters only and then a cased letter
RECURSIVE casedToward(_, _, _)
casedAcross(s, j, step, class) ==
    IF class = "ignorable pair" THEN casedToward(s, j + 2 * step, step)
    ELSE IF class = "ignorable" THEN casedToward(s, j + step, step)
    ELSE class = "cased"

casedToward(s, j, step) ==
    IF j < 1 \/ j > Len(s) THEN FALSE
    ELSE casedAcross(s, j, step, caseClass(pairAt(s, j, step), s[j]))

\* the capital sigma at position k is a final sigma (Unicode's condition
\* Final_Sigma): it ends a word of cased letters, so a cased letter is
\* found backwards and none forwards
finalSigma(s, k) ==
    \A step \in {-1, 1} : casedToward(s, k + step, step) = (step = -1)

CapitalSigma ==
    "\\u03a3"

SmallSigma ==
    "\\u03c3"

SmallFinalSigma ==
    "\\u03c2"

\* capital I with dot above, and its lower-case form: i and a combining dot
\* above
CapitalIDot ==
    "\\u0130"

SmallIDot ==
    <<"i", "\\u0307">>

LowerOfUpper ==
    [ch \in Range(Upper) |-> Lower[CHOOSE k \in DOMAIN Upper : Upper[k] = ch]]
        @@ [ch \in Range(UpperLatin1) |->
               LowerLatin1[CHOOSE k \in DOMAIN UpperLatin1 : UpperLatin1[k] = ch]]

\* the lower-case form of one code unit up to U+00FF (a code unit above it
\* stays as it is here, as under the i flag of a regular expression)
LowerChar(ch) ==
    IF ch \in DOMAIN LowerOfUpper THEN LowerOfUpper[ch] ELSE ch

\* the lower-case form of the code unit at position k that is one code unit:
\* the small sigma or, at the end of a word, the small final sigma for a
\* capital sigma; the low surrogate of the lower-case form for the low
\* surrogate of a pair that has one (the high surrogate stays); capital I
\* with dot above is left to expandDots
lowerUnit(s, k) ==
    IF s[k] = CapitalSigma
    THEN (IF finalSigma(s, k) THEN SmallFinalSigma ELSE SmallSigma)
    ELSE formOf(LowerOfSurrogates, pairAt(s, k, -1),
                <<s[k], formOf(LowerOfUnit, s[k], s[k])>>)[2]

lowerUnits(s) ==
    [k \in DOMAIN s |-> lowerUnit(s, k)]

\* every capital I with dot above replaced by its lower-case form of two
\* code units
RECURSIVE expandDots(_)
expandDots(s) ==
    IF s = <<>> THEN <<>>
    ELSE (IF Head(s) = CapitalIDot THEN SmallIDot ELSE <<Head(s)>>)
             \o expandDots(Tail(s))

expandedIf(dotted, s) ==
    IF dotted THEN expandDots(s) ELSE s

\* String.prototype.toLowerCase: the locale-independent lower-case mapping
\* of the Unicode standard, by code point
toLowerCase(s) ==
    expandedIf(\E k \in DOMAIN s : s[k] = CapitalIDot, lowerUnits(s))

RECURSIVE TrimStart(_)
TrimStart(s) ==
    IF s # <<>> /\ IsSpace(Head(s)) THEN TrimStart(Tail(s)) ELSE s

RECURSIVE TrimEnd(_)
TrimEnd(s) ==
    IF s # <<>> /\ IsSpace(s[Len(s)])
    THEN TrimEnd(SubSeq(s, 1, Len(s) - 1))
    ELSE s

\* String.prototype.trim
trim(s) ==
    TrimEnd(TrimStart(s))

\* String.prototype.includes: sub occurs in s as a substring
includes(s, sub) ==
    \E k \in 1..(Len(s) - Len(sub) + 1) : SubSeq(s, k, k + Len(sub) - 1) = sub

\* s.split(" "): the pieces between single spaces ("" splits to [""])
RECURSIVE SplitFrom(_, _, _)
SplitFrom(s, k, acc) ==
    IF k > Len(s) THEN <<acc>>
    ELSE IF s[k] = " " THEN <<acc>> \o SplitFrom(s, k + 1, <<>>)
    ELSE SplitFrom(s, k + 1, Append(acc, s[k]))

splitSpace(s) ==
    SplitFrom(s, 1, <<>>)

\* text.split(/\r?\n/): a "\r" directly before the "\n" is part of the
\* separator; the text after the last separator is a line, even when empty
RECURSIVE SplitLinesFrom(_, _, _)
SplitLinesFrom(s, k, acc) ==
    IF k > Len(s) THEN <<acc>>
    ELSE IF s[k] = "\n"
    THEN <<(IF acc # <<>> /\ acc[Len(acc)] = "\r"
            THEN SubSeq(acc, 1, Len(acc) - 1)
            ELSE acc)>> \o SplitLinesFrom(s, k + 1, <<>>)
    ELSE SplitLinesFrom(s, k + 1, Append(acc, s[k]))

splitLines(text) ==
    SplitLinesFrom(text, 1, <<>>)

----------------------------------------------------------------------------
(* The file system seen by readFile, and path.join                         *)

\* path.join(repoDir, rel) normalises: "." and "" segments vanish and ".."
\* removes the segment before it (at the root it is dropped); a path is the
\* sequence of what stands between its slashes, so one that ends with a
\* slash ends with an empty segment
RECURSIVE NormalizeSegments(_, _)
NormalizeSegments(segs, acc) ==
    IF segs = <<>> THEN acc
    ELSE IF Head(segs) \in {".", ""} THEN NormalizeSegments(Tail(segs), acc)
    ELSE IF Head(segs) = ".."
    THEN NormalizeSegments(Tail(segs),
                           IF acc = <<>> THEN acc
                           ELSE SubSeq(acc, 1, Len(acc) - 1))
    ELSE NormalizeSegments(Tail(segs), Append(acc, Head(segs)))

\* the joined text ends with a slash: rel is not empty and ends with one
\* (an empty rel is left out of the join)
endsWithSlash(rel) ==
    Len(rel) > 1 /\ rel[Len(rel)] = ""

\* path.join(repoDir, rel): the normalised path keeps a trailing slash,
\* unless it is the root
pathJoin(repoDir, rel) ==
    LET normal == NormalizeSegments(repoDir \o rel, <<>>)
    IN  IF endsWithSlash(rel) /\ normal # <<>> THEN Append(normal, "")
        ELSE normal

\* the absolute path p lies under the directory dir
IsUnder(dir, p) ==
    Len(p) > Len(dir) /\ SubSeq(p, 1, Len(dir)) = dir

RepoDir ==
    <<"repo">>

ContentA ==
    <<"a", "\n", "b", "\r", "\n", "c", "\n", "d">>

ContentB ==
    <<"x", "\n">>

ContentC ==
    <<"\n", "\n", "\n", "\n", "\n", "\n", "q">>

ContentOut ==
    <<"o", "\n", "o", "\n", "o", "\n", "o">>

\* The files on disk, by absolute path: three inside the repository and one
\* next to it.
FileSystem ==
    (<<"repo", "a.ts">> :> ContentA) @@ (<<"repo", "b.ts">> :> ContentB)
        @@ (<<"repo", "c.ts">> :> ContentC) @@ (<<"out.ts">> :> ContentOut)

\* readFile(full, "utf8") resolves for the files on disk and rejects otherwise
CanRead(full) ==
    full \in DOMAIN FileSystem

FileA ==
    <<"a.ts">>

FileB ==
    <<"b.ts">>

FileC ==
    <<"c.ts">>

FileMissing ==
    <<"missing.ts">>

FileOutside ==
    <<"..", "out.ts">>

\* a name every object literal inherits a property for
FileConstructor ==
    <<"constructor">>

\* "a.ts/": a path that ends with a separator
FileSlash ==
    <<"a.ts", "">>

----------------------------------------------------------------------------
(* verifyComments: the per-comment checks                                  *)

\* An optional value is a sequence: <<>> when undefined, <<v>> when given.
Undefined ==
    <<>>

IsDefined(x) ==
    Len(x) > 0

DefaultMinSuggestionChars ==
    12

DuplicateThresholdNum ==
    9

DuplicateThresholdDen ==
    10

\* fileAndLineExists with the upper bound off by one (line <= lines.length + 1)
fileAndLineExistsOffByOne(repoDir, rel, line) ==
    LET full == pathJoin(repoDir, rel)
    IN  IF ~CanRead(full) THEN FALSE
        ELSE LET lines == splitLines(FileSystem[full])
             IN  line >= 1 /\ line <= Len(lines) + 1

\* const fileAndLineExists = async (repoDir, rel, line) => ...
fileAndLineExists(repoDir, rel, line) ==
    LET full == pathJoin(repoDir, rel)
    IN  IF ~CanRead(full) THEN FALSE
        ELSE LET lines == splitLines(FileSystem[full])
             IN  line >= 1 /\ line <= Len(lines)

GenericRefactoring ==
    <<"c", "o", "n", "s", "i", "d", "e", "r", " ", "r", "e", "f", "a", "c", "t", "o", "r", "i", "n", "g">>

GenericReadability ==
    <<"i", "m", "p", "r", "o", "v", "e", " ", "r", "e", "a", "d", "a", "b", "i", "l", "i", "t", "y">>

GenericAddTest ==
    <<"a", "d", "d", " ", "t", "e", "s", "t">>

\* /consider refactoring/i, /improve readability/i, /add tests?/i: each is an
\* unanchored, case-insensitive search for a literal (the optional final "s"
\* of the third never decides a match); the i flag pairs a letter with its
\* other case code unit by code unit and no code unit above U+007F with one
\* of the literals' letters
generic ==
    {GenericRefactoring, GenericReadability, GenericAddTest}

regexTestIgnoreCase(literal, s) ==
    includes([k \in 1..Len(s) |-> LowerChar(s[k])], literal)

\* hasNonTrivialSuggestion measuring the suggestion without trim()
hasNonTrivialSuggestionUntrimmed(c, minChars) ==
    LET s == c.suggestion
    IN  IF Len(s) < minChars THEN FALSE
        ELSE ~ \E re \in generic : regexTestIgnoreCase(re, s)

\* const hasNonTrivialSuggestion = (c, minChars) => ...
hasNonTrivialSuggestion(c, minChars) ==
    LET s == trim(c.suggestion)
    IN  IF Len(s) < minChars THEN FALSE
        ELSE ~ \E re \in generic : regexTestIgnoreCase(re, s)

\* new RegExp(`(^|[^A-Za-z0-9_])${escapeRegExp(name)}([^A-Za-z0-9_]|$)`)
\*     .test(content): the literal name, with a non-word character or the
\* text boundary on each side
symbolRegexTest(name, content) ==
    \E k \in 1..(Len(content) - Len(name) + 1) :
        /\ SubSeq(content, k, k + Len(name) - 1) = name
        /\ (k = 1 \/ ~IsWordChar(content[k - 1]))
        /\ (k + Len(name) - 1 = Len(content)
            \/ ~IsWordChar(content[k + Len(name)]))

\* What an object literal inherits from Object.prototype: the property
\* names, each with the length its value reports (the parameter count of the
\* function; __proto__ is Object.prototype itself, which has no length).
\* None of the values is an array.
ObjectPrototype ==
    (<<"constructor">> :> <<1>>) @@ (<<"hasOwnProperty">> :> <<1>>)
        @@ (<<"isPrototypeOf">> :> <<1>>)
        @@ (<<"propertyIsEnumerable">> :> <<1>>)
        @@ (<<"toString">> :> <<0>>) @@ (<<"valueOf">> :> <<0>>)
        @@ (<<"toLocaleString">> :> <<0>>)
        @@ (<<"__defineGetter__">> :> <<2>>)
        @@ (<<"__defineSetter__">> :> <<2>>)
        @@ (<<"__lookupGetter__">> :> <<1>>)
        @@ (<<"__lookupSetter__">> :> <<1>>) @@ (<<"__proto__">> :> <<>>)

\* defsByFile[c.file] ?? []: the file's own list; else what the property
\* lookup finds on the prototype; else the empty array.  length is the
\* optional value of .length and items the elements when it is an array.
defsOf(defsByFile, file) ==
    IF file \in DOMAIN defsByFile
    THEN [isArray |-> TRUE, length |-> <<Len(defsByFile[file])>>,
          items |-> defsByFile[file]]
    ELSE IF file \in DOMAIN ObjectPrototype
    THEN [isArray |-> FALSE, length |-> ObjectPrototype[file], items |-> <<>>]
    ELSE [isArray |-> TRUE, length |-> <<0>>, items |-> <<>>]

\* referencesKnownSymbols throws a TypeError: defs.length is not 0 and defs
\* has no method some
referencesKnownSymbolsThrows(c, defsByFile) ==
    LET defs == defsOf(defsByFile, c.file)
    IN  defs.length # <<0>> /\ ~defs.isArray

\* const referencesKnownSymbols = (c, defsByFile) => ...: the value it
\* returns when it does not throw
referencesKnownSymbols(c, defsByFile) ==
    LET defs == defsOf(defsByFile, c.file)
        content == c.rationale \o <<"\n">> \o c.suggestion
    IN  IF defs.length = <<0>> THEN TRUE
        ELSE \E d \in DOMAIN defs.items :
                 symbolRegexTest(defs.items[d].name, content)

RECURSIVE CollapseSpaces(_)
CollapseSpaces(s) ==
    IF s = <<>> THEN <<>>
    ELSE IF IsSpace(Head(s))
    THEN <<" ">> \o CollapseSpaces(TrimStart(s))
    ELSE <<Head(s)>> \o CollapseSpaces(Tail(s))

\* const normalize = (s) => s.toLowerCase().replace(/[^a-z0-9\s]/g, " ")
\*     .replace(/\s+/g, " ").trim()
normalize(s) ==
    LET low == toLowerCase(s)
        plain == [k \in 1..Len(low) |->
                      IF IsLowerAlnum(low[k]) \/ IsSpace(low[k])
                      THEN low[k] ELSE " "]
    IN  trim(CollapseSpaces(plain))

MaxOf(a, b) ==
    IF a >= b THEN a ELSE b

\* const similarity = (a, b) => ...: the quotient is kept as a fraction
similarity(a, b) ==
    LET na == normalize(a)
        nb == normalize(b)
        words == splitSpace(na)
        intersection == {w \in Range(words) : includes(nb, w)}
    IN  IF na = nb THEN [num |-> 1, den |-> 1]
        ELSE [num |-> Cardinality(intersection),
              den |-> MaxOf(Len(words), 1)]

\* score > 0.9
Above(score, num, den) ==
    score.num * den > num * score.den

\* isDuplicateAgainst without the comparison of the lines
isDuplicateIgnoringLine(keptComments, c) ==
    \E k \in DOMAIN keptComments :
        /\ keptComments[k].file = c.file
        /\ Above(similarity(keptComments[k].rationale, c.rationale),
                 DuplicateThresholdNum, DuplicateThresholdDen)

\* const isDuplicateAgainst = (kept, c) => kept.some(...)
isDuplicateAgainst(keptComments, c) ==
    \E k \in DOMAIN keptComments :
        /\ keptComments[k].file = c.file
        /\ keptComments[k].line = c.line
        /\ Above(similarity(keptComments[k].rationale, c.rationale),
                 DuplicateThresholdNum, DuplicateThresholdDen)

----------------------------------------------------------------------------
(* FuzzyCodeMatcher                                                        *)

DefaultMinConfidence ==
    60

DefaultMaxContextMatches ==
    5

\* the constructor's default options
DefaultFuzzyOptions ==
    [minConfidence |-> DefaultMinConfidence,
     maxContextMatches |-> DefaultMaxContextMatches,
     includeContext |-> TRUE]

\* new FuzzyCodeMatcher(opts.fuzzyMatchOptions)
matcherOptions(o) ==
    IF IsDefined(o.fuzzyMatchOptions) THEN o.fuzzyMatchOptions[1]
    ELSE DefaultFuzzyOptions

\* Math.max(token_sort_ratio, partial_ratio, token_set_ratio) of the fuzzball
\* library on two lower-cased texts, 0..100.  The library is not part of the
\* repository: its score is the table fuzz, of which only three facts are
\* fixed: an empty text scores 0, a text scores 100 against itself, and the
\* score does not depend on the order of the two texts.
fuzzballBest(table, text1, text2) ==
    LET t1 == toLowerCase(text1)
        t2 == toLowerCase(text2)
    IN  IF t1 = <<>> \/ t2 = <<>> THEN 0
        ELSE IF t1 = t2 THEN 100
        ELSE IF <<t1, t2>> \in DOMAIN table THEN table[<<t1, t2>>]
        ELSE IF <<t2, t1>> \in DOMAIN table THEN table[<<t2, t1>>]
        ELSE 0

\* getSimilarity(text1, text2), in hundredths
getSimilarity(table, text1, text2) ==
    fuzzballBest(table, text1, text2)

\* [...new Set(comments.map((c) => c.file))]: first occurrences, in order
RECURSIVE uniqueFiles(_, _)
uniqueFiles(cs, seen) ==
    IF cs = <<>> THEN seen
    ELSE uniqueFiles(Tail(cs),
                     IF Head(cs).file \in Range(seen) THEN seen
                     ELSE Append(seen, Head(cs).file))

\* this.fileContents.set(file, lines): a new key goes to the end of the Map,
\* a key the Map holds keeps its place and gets the new value
mapSet(contents, file, lines) ==
    IF \E k \in DOMAIN contents : contents[k].file = file
    THEN [k \in DOMAIN contents |->
              IF contents[k].file = file THEN [file |-> file, lines |-> lines]
              ELSE contents[k]]
    ELSE Append(contents, [file |-> file, lines |-> lines])

\* one turn of the loop of loadFiles: a file that cannot be read is skipped
\* with a warning.  this.fileSymbols, which the turn also fills, is read by
\* no method of the class and is left out.
loadFile(contents, repoDir, file) ==
    LET full == pathJoin(repoDir, file)
    IN  IF CanRead(full)
        THEN mapSet(contents, file, splitLines(FileSystem[full]))
        ELSE contents

\* loadFiles(repoDir, files) on a matcher whose Map is contents
RECURSIVE loadFiles(_, _, _)
loadFiles(contents, repoDir, files) ==
    IF files = <<>> THEN contents
    ELSE loadFiles(loadFile(contents, repoDir, Head(files)), repoDir,
                   Tail(files))

\* The hundredths h for which the double (h / 100) * 100 lies above h; for
\* every other h of 0..100 it is h or lies less than one below it.
RoundsUp ==
    {7, 14, 28, 55, 56}

\* score >= this.options.minConfidence * 100, the product in double
\* precision and the score an integer
reachesThreshold(score, minConfidence) ==
    IF minConfidence \in RoundsUp THEN score > minConfidence
    ELSE score >= minConfidence

\* the matches of one file, in line order
matchesInFile(table, entry, comment, options) ==
    LET all == [k \in 1..Len(entry.lines) |->
                    [file |-> entry.file, line |-> k,
                     content |-> entry.lines[k],
                     score |-> fuzzballBest(table, comment.rationale,
                                            entry.lines[k])]]
        Enough(m) == reachesThreshold(m.score, options.minConfidence)
    IN  SelectSeq(all, Enough)

\* the scan over this.fileContents, in Map order
RECURSIVE scanFiles(_, _, _, _)
scanFiles(table, contents, comment, options) ==
    IF contents = <<>> THEN <<>>
    ELSE matchesInFile(table, Head(contents), comment, options)
             \o scanFiles(table, Tail(contents), comment, options)

\* contextMatches.sort((a, b) => b.score - a.score): stable, descending
RECURSIVE insertByScore(_, _)
insertByScore(sorted, m) ==
    IF sorted = <<>> THEN <<m>>
    ELSE IF Head(sorted).score >= m.score
    THEN <<Head(sorted)>> \o insertByScore(Tail(sorted), m)
    ELSE <<m>> \o sorted

RECURSIVE sortByScore(_)
sortByScore(ms) ==
    IF ms = <<>> THEN <<>>
    ELSE insertByScore(sortByScore(SubSeq(ms, 1, Len(ms) - 1)), ms[Len(ms)])

\* array.slice(0, n): the first n elements, or with a negative n all but
\* the last -n
sliceFirst(s, n) ==
    LET end == IF n < 0 THEN Len(s) + n ELSE n
    IN  SubSeq(s, 1, IF end < Len(s) THEN (IF end < 0 THEN 0 ELSE end)
                     ELSE Len(s))

\* findCommentLocation(comment)
findCommentLocation(table, contents, comment, options) ==
    LET contextMatches == sortByScore(scanFiles(table, contents, comment,
                                                options))
        topMatches == sliceFirst(contextMatches, options.maxContextMatches)
        confidence == IF topMatches # <<>> THEN topMatches[1].score ELSE 0
    IN  [comment |-> comment,
         confidence |-> confidence,
         suggestedLocation |->
             IF confidence >= options.minConfidence /\ topMatches # <<>>
             THEN <<[file |-> topMatches[1].file,
                     line |-> topMatches[1].line,
                     confidence |-> confidence]>>
             ELSE Undefined,
         contextMatches |->
             IF options.includeContext THEN topMatches ELSE <<>>]

Abs(n) ==
    IF n < 0 THEN 0 - n ELSE n

MisplacedLineDelta ==
    5

\* the condition of findMisplacedComments on one match
isMisplaced(match, comment, options) ==
    /\ IsDefined(match.suggestedLocation)
    /\ match.confidence >= options.minConfidence
    /\ \/ match.suggestedLocation[1].file # comment.file
       \/ Abs(match.suggestedLocation[1].line - comment.line)
              > MisplacedLineDelta

\* one evidence line: `${file}:${line} (${score}% match): "${content.trim()}"`,
\* kept as its four parts
evidenceOf(m) ==
    [file |-> m.file, line |-> m.line, score |-> m.score,
     content |-> trim(m.content)]

\* findMisplacedComments(comments); a comment is referred to by its position
RECURSIVE findMisplacedFrom(_, _, _, _, _)
findMisplacedFrom(table, contents, cs, k, options) ==
    IF k > Len(cs) THEN <<>>
    ELSE LET match == findCommentLocation(table, contents, cs[k], options)
             Enough(m) == reachesThreshold(m.score, options.minConfidence)
             rest == findMisplacedFrom(table, contents, cs, k + 1, options)
         IN  IF isMisplaced(match, cs[k], options)
             THEN <<[comment |-> k,
                     originalLocation |->
                         [file |-> cs[k].file, line |-> cs[k].line],
                     suggestedLocation |-> match.suggestedLocation[1],
                     contextEvidence |->
                         [e \in DOMAIN SelectSeq(match.contextMatches, Enough)
                              |-> evidenceOf(SelectSeq(match.contextMatches,
                                                       Enough)[e])]]>>
                      \o rest
             ELSE rest

findMisplacedComments(table, contents, cs, options) ==
    findMisplacedFrom(table, contents, cs, 1, options)

\* the callback of enhanceCommentLocations returning the rationale as
\* findCommentLocation matches it, lower-cased
enhanceOneLowersRationale(table, contents, comment, options) ==
    LET match == findCommentLocation(table, contents, comment, options)
    IN  IF IsDefined(match.suggestedLocation)
           /\ match.confidence >= options.minConfidence
        THEN [comment EXCEPT !.file = match.suggestedLocation[1].file,
                             !.line = match.suggestedLocation[1].line,
                             !.rationale = toLowerCase(comment.rationale),
                             !.confidence = <<match.confidence>>]
        ELSE comment

\* the callback of enhanceCommentLocations: the relocated copy, or the
\* comment itself (confidence is the optional added field)
enhanceOne(table, contents, comment, options) ==
    LET match == findCommentLocation(table, contents, comment, options)
    IN  IF IsDefined(match.suggestedLocation)
           /\ match.confidence >= options.minConfidence
        THEN [comment EXCEPT !.file = match.suggestedLocation[1].file,
                             !.line = match.suggestedLocation[1].line,
                             !.confidence = <<match.confidence>>]
        ELSE comment

\* enhanceCommentLocations(comments) = comments.map(...)
enhanceCommentLocations(table, contents, cs, options) ==
    [k \in 1..Len(cs) |-> enhanceOne(table, contents, cs[k], options)]

----------------------------------------------------------------------------
(* verifyComments                                                          *)

FuzzyGateConfidence ==
    90

FuzzyDuplicateThreshold ==
    85

\* opts.minSuggestionChars ?? 12
minCharsOf(o) ==
    IF IsDefined(o.minSuggestionChars) THEN o.minSuggestionChars[1]
    ELSE DefaultMinSuggestionChars

\* opts.definitionsByFile ?? {}
defsByFileOf(o) ==
    IF IsDefined(o.definitionsByFile) THEN o.definitionsByFile[1] ELSE <<>>

\* the comments the kept array refers to
keptComments(cs, keptNow) ==
    [k \in 1..Len(keptNow) |-> cs[keptNow[k]]]

\* the reasons pushed by the four checks every comment gets
priorReasons(c, keptCs, o) ==
    (IF ~fileAndLineExists(o.repoDir, c.file, c.line)
     THEN <<"invalid-file-or-line">> ELSE <<>>)
    \o (IF ~hasNonTrivialSuggestion(c, minCharsOf(o))
        THEN <<"suggestion-too-weak">> ELSE <<>>)
    \o (IF ~referencesKnownSymbols(c, defsByFileOf(o))
        THEN <<"no-known-symbols-referenced">> ELSE <<>>)
    \o (IF isDuplicateAgainst(keptCs, c)
        THEN <<"duplicate-comment">> ELSE <<>>)

\* the fuzzy duplicate check: if (fuzzyMatcher && reasons.length === 0) ...
fuzzyReasons(c, keptCs, o, table, contents, reasons) ==
    IF o.enableFuzzyMatching /\ Len(reasons) = 0
    THEN LET fuzzyMatch == findCommentLocation(table, contents, c,
                                               matcherOptions(o))
             isFuzzyDuplicate ==
                 \E k \in DOMAIN keptCs :
                     getSimilarity(table, keptCs[k].rationale, c.rationale)
                         > FuzzyDuplicateThreshold
         IN  IF fuzzyMatch.confidence > FuzzyGateConfidence
                /\ isFuzzyDuplicate
             THEN <<"fuzzy-duplicate-comment">>
             ELSE <<>>
    ELSE <<>>

\* all reasons of one loop iteration, in the order they are pushed
reasonsFor(c, keptCs, o, table, contents) ==
    LET reasons == priorReasons(c, keptCs, o)
    IN  reasons \o fuzzyReasons(c, keptCs, o, table, contents, reasons)

\* the end of the loop body with the else lost: every comment is kept
pushResultKeepAll(keptNow, droppedNow, k, reasons) ==
    [kept |-> Append(keptNow, k),
     dropped |-> IF Len(reasons) = 0 THEN droppedNow
                 ELSE Append(droppedNow, [comment |-> k, reasons |-> reasons])]

\* if (reasons.length === 0) kept.push(c) else dropped.push({comment, reasons})
pushResult(keptNow, droppedNow, k, reasons) ==
    IF Len(reasons) = 0
    THEN [kept |-> Append(keptNow, k), dropped |-> droppedNow]
    ELSE [kept |-> keptNow,
          dropped |-> Append(droppedNow, [comment |-> k, reasons |-> reasons])]

\* Lines 34-50 and loadFiles up to its loop: the result arrays are created;
\* in fuzzy mode a matcher with an empty Map is made and loadFiles starts.
VerifyStart ==
    /\ pc = "start"
    /\ kept' = <<>>
    /\ dropped' = <<>>
    /\ misplaced' = <<>>
    /\ enhanced' = <<>>
    /\ fileContents' = <<>>
    /\ IF opts.enableFuzzyMatching
       THEN /\ pc' = "load"
            /\ fileIdx' = 1
            /\ idx' = idx
       ELSE /\ pc' = "loop"
            /\ fileIdx' = fileIdx
            /\ idx' = 1
    /\ UNCHANGED <<comments, opts, fuzz>>
    /\ UNCHANGED outsideVerify

\* One turn of the loop of loadFiles, which awaits readFile.
VerifyLoad ==
    /\ pc = "load"
    /\ fileIdx <= Len(uniqueFiles(comments, <<>>))
    /\ fileContents' = loadFile(fileContents, opts.repoDir,
                                uniqueFiles(comments, <<>>)[fileIdx])
    /\ fileIdx' = fileIdx + 1
    /\ UNCHANGED <<comments, opts, fuzz, pc, idx, kept, dropped, enhanced,
                   misplaced>>
    /\ UNCHANGED outsideVerify

\* Lines 55-60: loadFiles has resolved; misplaced and enhanced are filled.
VerifyFuzzy ==
    /\ pc = "load"
    /\ fileIdx > Len(uniqueFiles(comments, <<>>))
    /\ misplaced' = findMisplacedComments(fuzz, fileContents, comments,
                                          matcherOptions(opts))
    /\ enhanced' = enhanceCommentLocations(fuzz, fileContents, comments,
                                           matcherOptions(opts))
    /\ idx' = 1
    /\ pc' = "loop"
    /\ UNCHANGED <<comments, opts, fuzz, fileIdx, kept, dropped, fileContents>>
    /\ UNCHANGED outsideVerify

\* Lines 62-100: one iteration of the loop over comments.  When
\* referencesKnownSymbols throws, the promise of verifyComments rejects and
\* nothing is returned.
VerifyStep ==
    /\ pc = "loop"
    /\ idx <= Len(comments)
    /\ IF referencesKnownSymbolsThrows(comments[idx], defsByFileOf(opts))
       THEN /\ pc' = "threw"
            /\ UNCHANGED <<idx, kept, dropped>>
       ELSE /\ LET reasons == reasonsFor(comments[idx],
                                         keptComments(comments, kept),
                                         opts, fuzz, fileContents)
                   result == pushResult(kept, dropped, idx, reasons)
               IN  /\ kept' = result.kept
                   /\ dropped' = result.dropped
            /\ idx' = idx + 1
            /\ pc' = pc
    /\ UNCHANGED <<comments, opts, fuzz, fileIdx, enhanced, misplaced,
                   fileContents>>
    /\ UNCHANGED outsideVerify

\* Line 102: the loop is over and the result is returned.
VerifyReturn ==
    /\ pc = "loop"
    /\ idx > Len(comments)
    /\ pc' = "done"
    /\ UNCHANGED <<comments, opts, fuzz, fileIdx, idx, kept, dropped, enhanced,
                   misplaced, fileContents>>
    /\ UNCHANGED outsideVerify

----------------------------------------------------------------------------
(* Inputs                                                                  *)

MaxComments ==
    2

R1 ==
    <<"C", "h", "e", "c", "k", " ", "i", "d", " ", "i", "n", " ", "f", "o", "o">>

R2 ==
    <<"c", "h", "e", "c", "k", " ", "I", "D", " ", "i", "n", " ", "f", "o", "o", "!">>

R3 ==
    <<"i", "d">>

R4 ==
    <<"i", "d", "x", " ", "f", "o", "o">>

S1 ==
    <<"g", "u", "a", "r", "d", " ", "f", "o", "o", " ", "i", "d">>

S2 ==
    <<" ", " ", "g", "u", "a", "r", "d", " ", "i", "d", " ", " ">>

S3 ==
    <<"f", "i", "x", "i", "t">>

S4 ==
    <<"P", "l", "e", "a", "s", "e", " ", "A", "D", "D", " ", "T", "e", "s", "t", "s">>

S5 ==
    <<"C", "o", "n", "s", "i", "d", "e", "r", " ", "R", "e", "f", "a", "c", "t", "o", "r", "i", "n", "g">>

S6 ==
    <<"i", "m", "p", "r", "o", "v", "e", " ", "r", "e", "a", "d", "a", "b", "i", "l", "i", "t", "y">>

S7 ==
    <<"u", "s", "e", " ", "m", "y", "f", "o", "o", " ", "f", "o", "o", "2", " ", "x">>

S8 ==
    <<"w", "r", "a", "p", " ", "i", "t", " ", "i", "n", " ", "f", "o", "o">>

RA ==
    <<"N", "u", "l", "l", " ", "i", "d">>

RB ==
    <<"i", "d", " ", "i", "s", " ", "n", "u", "l", "l">>

NameFoo ==
    <<"f", "o", "o">>

SmellText ==
    <<"s", "m", "e", "l", "l">>

\* a schema-valid ReviewComment; confidence is the field only an enhanced
\* copy carries
Comment(file, line, rationale, suggestion) ==
    [file |-> file, line |-> line, severity |-> "minor", smell |-> SmellText,
     rationale |-> rationale, suggestion |-> suggestion,
     confidence |-> Undefined]

VerifyPool ==
    { Comment(FileA, 3, R1, S1),
      Comment(FileA, 4, R1, S1),
      Comment(FileA, 3, R2, S8),
      Comment(FileA, 3, R3, S1),
      Comment(FileA, 3, R4, S1),
      Comment(FileA, 3, R3, S7),
      Comment(FileA, 5, R1, S3),
      Comment(FileB, 2, R3, S2),
      Comment(FileMissing, 1, R1, S4),
      Comment(FileOutside, 2, R1, S1),
      Comment(FileB, 3, R1, S5),
      Comment(FileA, 0, R3, S6),
      Comment(FileConstructor, 1, R1, S1),
      Comment(FileSlash, 3, R1, S1) }

FuzzyPool ==
    { Comment(FileB, 1, RA, S1),
      Comment(FileC, 1, RA, S1),
      Comment(FileC, 2, RB, S1),
      Comment(FileMissing, 1, RB, S1) }

SeqsUpTo(pool, n) ==
    UNION {[1..m -> pool] : m \in 0..n}

\* definitionsByFile: not given, or foo known in a.ts and nothing in b.ts
DefsChoices ==
    { Undefined,
      <<(FileA :> <<[name |-> NameFoo, line |-> 1]>>) @@ (FileB :> <<>>)>> }

MinCharsChoices ==
    {Undefined, <<16>>, <<4>>}

\* fuzzball's scores of a rationale against a source line (no match, 0.55, the
\* default minConfidence exactly, a near match), and of one rationale against
\* another (the fuzzy-duplicate threshold exactly, and a full token-set match)
LineScores ==
    {0, 55, 60, 95}

RationaleScores ==
    {85, 100}

\* the pairs whose score varies; every other rationale and line score 0
LinePairs ==
    {<<toLowerCase(RA), <<"x">>>>, <<toLowerCase(RA), <<"q">>>>,
     <<toLowerCase(RB), <<"q">>>>}

RationalePairs ==
    {<<toLowerCase(RA), toLowerCase(RB)>>}

FuzzTables ==
    {l @@ r : l \in [LinePairs -> LineScores],
              r \in [RationalePairs -> RationaleScores]}

\* a call without fuzzy matching (both versions of verifyComments)
InitPlain ==
    /\ comments \in SeqsUpTo(VerifyPool, MaxComments)
    /\ opts \in [repoDir : {RepoDir},
                 definitionsByFile : DefsChoices,
                 minSuggestionChars : MinCharsChoices,
                 enableFuzzyMatching : {FALSE},
                 fuzzyMatchOptions : {Undefined}]
    /\ fuzz = <<>>

\* fuzzyMatchOptions: not given (the defaults), a stricter setting, or a
\* minConfidence of 0.55, whose product with 100 is not 55
FuzzyOptionChoices ==
    { Undefined,
      <<[minConfidence |-> 70, maxContextMatches |-> 1,
         includeContext |-> FALSE]>>,
      <<[minConfidence |-> 55, maxContextMatches |-> 5,
         includeContext |-> TRUE]>> }

\* a call with enableFuzzyMatching
InitFuzzy ==
    /\ comments \in SeqsUpTo(FuzzyPool, MaxComments)
    /\ opts \in [repoDir : {RepoDir},
                 definitionsByFile : {Undefined},
                 minSuggestionChars : {Undefined},
                 enableFuzzyMatching : {TRUE},
                 fuzzyMatchOptions : FuzzyOptionChoices]
    /\ fuzz \in FuzzTables

Init ==
    /\ (InitPlain \/ InitFuzzy)
    /\ pc = "start"
    /\ fileIdx = 0
    /\ idx = 0
    /\ kept = <<>>
    /\ dropped = <<>>
    /\ enhanced = <<>>
    /\ misplaced = <<>>
    /\ fileContents = <<>>
    /\ OutsideVerifyIdle

Next ==
    \/ VerifyStart
    \/ VerifyLoad
    \/ VerifyFuzzy
    \/ VerifyStep
    \/ VerifyReturn

Spec ==
    Init /\ [][Next]_vars

----------------------------------------------------------------------------
(* Reading the result                                                      *)

\* the input positions the loop has dealt with
Processed ==
    IF pc = "start" THEN {} ELSE 1..(idx - 1)

KeptSet ==
    Range(kept)

DroppedSet ==
    {dropped[d].comment : d \in DOMAIN dropped}

\* the reasons recorded for input position j (none when it is not dropped)
ReasonsOf(j) ==
    UNION {Range(dropped[d].reasons) : d \in {e \in DOMAIN dropped : dropped[e].comment = j}}

\* the kept comments at the time input position j was processed
KeptBefore(j) ==
    LET Before(k) == k < j
    IN  keptComments(comments, SelectSeq(kept, Before))

\* verifyComments has returned its result
Returned ==
    pc = "done"

StrictlyIncreasing(s) ==
    \A a, b \in DOMAIN s : a < b => s[a] < s[b]

----------------------------------------------------------------------------
(* C1 *)

C1_Partition ==
    /\ \A j \in Processed :
           /\ Cardinality({k \in DOMAIN kept : kept[k] = j})
                  + Cardinality({d \in DOMAIN dropped : dropped[d].comment = j})
                  = 1
    /\ KeptSet \cup DroppedSet \subseteq Processed
    /\ Len(kept) + Len(dropped) = Cardinality(Processed)
    /\ (pc = "done" => Len(kept) + Len(dropped) = Len(comments))
    /\ StrictlyIncreasing(kept)
    /\ StrictlyIncreasing([d \in DOMAIN dropped |-> dropped[d].comment])
    /\ \A d \in DOMAIN dropped : Len(dropped[d].reasons) >= 1
    /\ \A j \in Processed :
           j \in KeptSet <=>
               reasonsFor(comments[j], KeptBefore(j), opts, fuzz,
                          fileContents) = <<>>

C1_NoRetry ==
    \A j \in DroppedSet : j \in DroppedSet' /\ j \notin KeptSet'

\* C1: verifyComments partitions its input.  At every point of the loop each
\* processed comment is in exactly one of kept and dropped, once; kept and
\* dropped list their comments in input order; every dropped entry has at
\* least one reason; a comment is kept iff no check gave a reason; at the end
\* |kept| + |dropped| = |comments|; and a dropped comment stays dropped and
\* is never moved to kept.
C1_VerifyPartitions ==
    []C1_Partition /\ [][C1_NoRetry]_vars

\* C1 witness: a finished call with two comments, the first dropped and the
\* second kept.
C1_Witness ==
    /\ pc = "done"
    /\ Len(comments) = 2
    /\ DroppedSet = {1}
    /\ kept = <<2>>

----------------------------------------------------------------------------
(* C2 *)

\* the words of a rationale after normalisation
WordsOf(s) ==
    splitSpace(normalize(s))

\* the similarity the claim describes: shared words over the larger count
ClaimedSimilarity(a, b) ==
    [num |-> Cardinality(Range(WordsOf(a)) \cap Range(WordsOf(b))),
     den |-> MaxOf(Len(WordsOf(a)), Len(WordsOf(b)))]

\* C2: a comment receives "duplicate-comment" iff some already-kept comment
\* has the same file and line and a rationale whose similarity (size of the
\* intersection of the two normalised word sets over the larger of the two
\* word counts) is above 0.9.
C2_DuplicateBySymmetricOverlap ==
    Returned =>
    \A j \in Processed :
        "duplicate-comment" \in ReasonsOf(j) <=>
            \E k \in DOMAIN KeptBefore(j) :
                /\ KeptBefore(j)[k].file = comments[j].file
                /\ KeptBefore(j)[k].line = comments[j].line
                /\ Above(ClaimedSimilarity(KeptBefore(j)[k].rationale,
                                           comments[j].rationale),
                         DuplicateThresholdNum, DuplicateThresholdDen)

----------------------------------------------------------------------------
(* C3 *)

\* a kept comment k on a.ts line 3 that references a known symbol, followed
\* by the comment at input position j in the same file with the same rationale
C3_Scenario(k, j) ==
    /\ k.file = FileA
    /\ k.line = 3
    /\ defsOf(defsByFileOf(opts), k.file).items # <<>>
    /\ referencesKnownSymbols(k, defsByFileOf(opts))
    /\ comments[j].file = k.file
    /\ comments[j].rationale = k.rationale

\* C3 as stated: in that scenario the later comment, on line 4, is dropped
\* with reason "duplicate-comment".
C3_Line4IsDuplicate ==
    Returned =>
    \A j \in Processed :
        \A k \in Range(KeptBefore(j)) :
            C3_Scenario(k, j) /\ comments[j].line = 4
                => "duplicate-comment" \in ReasonsOf(j)

\* C3 amended: in that scenario the later comment is dropped with reason
\* "duplicate-comment" when its line is 3 as well; on line 4 it does not
\* receive that reason unless a comment on line 4 of the file was kept before.
C3_SameLineIsDuplicate ==
    Returned =>
    \A j \in Processed :
        \A k \in Range(KeptBefore(j)) :
            C3_Scenario(k, j) =>
                /\ comments[j].line = 3 => "duplicate-comment" \in ReasonsOf(j)
                /\ (/\ comments[j].line = 4
                    /\ ~ \E k4 \in Range(KeptBefore(j)) :
                           k4.file = FileA /\ k4.line = 4)
                       => "duplicate-comment" \notin ReasonsOf(j)

\* C3 witness: the comment on line 3 was kept and the comment on line 4 with
\* the same rationale has been processed and kept as well.
C3_Witness ==
    /\ pc = "done"
    /\ Len(comments) = 2
    /\ comments[2].line = 4
    /\ kept = <<1, 2>>
    /\ C3_Scenario(comments[1], 2)

----------------------------------------------------------------------------
(* C4 *)

\* the line count of a text: one more than its line breaks
LineCount(text) ==
    Cardinality({k \in DOMAIN text : text[k] = "\n"}) + 1

\* C4: a comment receives "invalid-file-or-line" iff its file cannot be read
\* or its line is outside [1, lineCount] of the file's content, whatever its
\* other fields are.
C4_InvalidFileOrLine ==
    Returned =>
    \A j \in Processed :
        LET full == pathJoin(opts.repoDir, comments[j].file)
        IN  "invalid-file-or-line" \in ReasonsOf(j) <=>
                \/ full \notin DOMAIN FileSystem
                \/ comments[j].line < 1
                \/ comments[j].line > LineCount(FileSystem[full])

\* C4 witness: a comment on a readable file whose line exceeds the line
\* count is dropped for that reason alone.
C4_Witness ==
    Returned /\
    \E d \in DOMAIN dropped :
        LET c == comments[dropped[d].comment]
        IN  /\ CanRead(pathJoin(opts.repoDir, c.file))
            /\ c.line > LineCount(FileSystem[pathJoin(opts.repoDir, c.file)])
            /\ dropped[d].reasons = <<"invalid-file-or-line">>

----------------------------------------------------------------------------
(* C5 *)

\* C5: a comment whose file path resolves to a location outside repoDir
\* always receives "invalid-file-or-line", even when a readable file with
\* enough lines exists there.
C5_OutsideRepoRejected ==
    Returned =>
    \A j \in Processed :
        ~IsUnder(opts.repoDir, pathJoin(opts.repoDir, comments[j].file))
            => "invalid-file-or-line" \in ReasonsOf(j)

----------------------------------------------------------------------------
(* C6 *)

\* some generic phrase occurs in s, letter case ignored
MatchesGeneric(s) ==
    \E phrase \in generic :
        \E k \in 1..Len(s) :
            /\ k + Len(phrase) - 1 <= Len(s)
            /\ \A n \in 1..Len(phrase) : LowerChar(s[k + n - 1]) = phrase[n]

\* the length of s without its leading and trailing whitespace
TrimmedLength(s) ==
    LET solid == {k \in DOMAIN s : ~IsSpace(s[k])}
    IN  IF solid = {} THEN 0
        ELSE (CHOOSE b \in solid : \A k \in solid : k <= b)
             - (CHOOSE a \in solid : \A k \in solid : a <= k) + 1

\* C6 as stated: "suggestion-too-weak" iff the suggestion is shorter than the
\* minimum length or matches a generic phrase; a 5-character suggestion is
\* always dropped with that reason.
C6_WeakByRawLength ==
    Returned =>
    \A j \in Processed :
        /\ "suggestion-too-weak" \in ReasonsOf(j) <=>
               \/ Len(comments[j].suggestion) < minCharsOf(opts)
               \/ MatchesGeneric(comments[j].suggestion)
        /\ Len(comments[j].suggestion) = 5
               => "suggestion-too-weak" \in ReasonsOf(j)

\* C6 amended: "suggestion-too-weak" iff the suggestion, with its leading and
\* trailing whitespace removed, is shorter than the minimum length or matches
\* a generic phrase; a 5-character suggestion is dropped with that reason
\* whenever the minimum length is above 5, as the default 12 is.
C6_WeakByTrimmedLength ==
    Returned =>
    \A j \in Processed :
        /\ "suggestion-too-weak" \in ReasonsOf(j) <=>
               \/ TrimmedLength(comments[j].suggestion) < minCharsOf(opts)
               \/ MatchesGeneric(comments[j].suggestion)
        /\ (Len(comments[j].suggestion) = 5 /\ minCharsOf(opts) > 5)
               => "suggestion-too-weak" \in ReasonsOf(j)

\* C6 witness: under the default minimum a 12-character suggestion that is
\* padded with blanks, and matches no generic phrase, is found too weak.
C6_Witness ==
    Returned /\
    \E j \in Processed :
        /\ ~IsDefined(opts.minSuggestionChars)
        /\ Len(comments[j].suggestion) = DefaultMinSuggestionChars
        /\ ~MatchesGeneric(comments[j].suggestion)
        /\ "suggestion-too-weak" \in ReasonsOf(j)

----------------------------------------------------------------------------
(* C7 *)

\* the identifiers of a text: its maximal runs of [A-Za-z0-9_]
Identifiers(text) ==
    LET starts == {a \in DOMAIN text :
                      /\ text[a] \in WordChars
                      /\ (a = 1 \/ text[a - 1] \notin WordChars)}
        ends == {b \in DOMAIN text :
                    /\ text[b] \in WordChars
                    /\ (b = Len(text) \/ text[b + 1] \notin WordChars)}
        EndOf(a) == CHOOSE b \in ends : b >= a /\ \A e \in ends : e >= a => b <= e
    IN  {SubSeq(text, a, EndOf(a)) : a \in starts}

\* the symbol names known for a file
KnownNames(file) ==
    LET defs == defsOf(defsByFileOf(opts), file).items
    IN  {defs[d].name : d \in DOMAIN defs}

\* C7: with no (or an empty) symbol list for the comment's file the check
\* passes (it neither gives the reason nor throws); otherwise the comment receives "no-known-symbols-referenced" iff no
\* known name of the file occurs in rationale + suggestion as a whole
\* identifier.
C7_SymbolGrounding ==
    /\ pc = "threw" => KnownNames(comments[idx].file) # {}
    /\ Returned =>
       \A j \in Processed :
           LET c == comments[j]
               content == c.rationale \o <<"\n">> \o c.suggestion
           IN  "no-known-symbols-referenced" \in ReasonsOf(j) <=>
                   /\ KnownNames(c.file) # {}
                   /\ KnownNames(c.file) \cap Identifiers(content) = {}

----------------------------------------------------------------------------
(* C8 *)

\* C8: with fuzzy matching enabled, a comment that passed all prior checks is
\* dropped with "fuzzy-duplicate-comment" whenever some already-kept comment's
\* rationale scores above 0.85 against its rationale; with fuzzy matching
\* disabled, or after a failed prior check, that reason never appears.
C8_FuzzyDuplicateWheneverSimilar ==
    Returned =>
    \A j \in Processed :
        LET c == comments[j]
            passed == priorReasons(c, KeptBefore(j), opts) = <<>>
            similar == \E k \in DOMAIN KeptBefore(j) :
                           getSimilarity(fuzz, KeptBefore(j)[k].rationale,
                                         c.rationale) > FuzzyDuplicateThreshold
        IN  /\ (opts.enableFuzzyMatching /\ passed /\ similar)
                   => "fuzzy-duplicate-comment" \in ReasonsOf(j)
            /\ (~opts.enableFuzzyMatching \/ ~passed)
                   => "fuzzy-duplicate-comment" \notin ReasonsOf(j)

----------------------------------------------------------------------------
(* C9, C10 *)

\* every line of the given files, in file order and then line order
RECURSIVE LinesOf(_)
LinesOf(contents) ==
    IF contents = <<>> THEN <<>>
    ELSE [k \in 1..Len(Head(contents).lines) |->
              [file |-> Head(contents).file, line |-> k,
               content |-> Head(contents).lines[k]]]
         \o LinesOf(Tail(contents))

\* the lines among ls that score highest against the rationale of c
BestLines(c, ls) ==
    LET score == [a \in DOMAIN ls |->
                      fuzzballBest(fuzz, c.rationale, ls[a].content)]
    IN  {a \in DOMAIN ls : \A b \in DOMAIN ls : score[b] <= score[a]}

\* a line as a suggested location
LocationOf(c, l) ==
    [file |-> l.file, line |-> l.line,
     confidence |-> fuzzballBest(fuzz, c.rationale, l.content)]

\* the best match of c over the loaded files: the first of the best lines,
\* when there is a line at all
BestLoaded(c) ==
    LET ls == LinesOf(fileContents)
        best == BestLines(c, ls)
    IN  IF best = {} THEN <<>>
        ELSE <<LocationOf(c, ls[CHOOSE a \in best : \A b \in best : a <= b])>>

\* the misplaced entries of input position j
MisplacedOf(j) ==
    {m \in DOMAIN misplaced : misplaced[m].comment = j}

\* the location differs meaningfully from the comment's own
FarFrom(c, loc) ==
    \/ loc.file # c.file
    \/ loc.line - c.line > MisplacedLineDelta
    \/ c.line - loc.line > MisplacedLineDelta

\* every file of the repository, as loadFiles reads them
RepositoryFiles ==
    loadFiles(<<>>, RepoDir, <<FileA, FileB, FileC>>)

\* C9 as stated: in fuzzy mode a comment whose best-scoring line over the
\* repository's file contents has confidence >= minConfidence is reported in
\* misplaced, with that line and its confidence as suggestedLocation, iff the
\* line is in another file or more than 5 lines away.  (For several equally
\* good lines, one of them is to satisfy this.)
C9_MisplacedOverRepository ==
    (Returned /\ opts.enableFuzzyMatching) =>
        \A j \in DOMAIN comments :
            LET c == comments[j]
                ls == LinesOf(RepositoryFiles)
                good == {a \in BestLines(c, ls) :
                            LocationOf(c, ls[a]).confidence
                                >= matcherOptions(opts).minConfidence}
            IN  good # {} =>
                    \E a \in good :
                        /\ MisplacedOf(j) # {} <=> FarFrom(c, LocationOf(c, ls[a]))
                        /\ \A m \in MisplacedOf(j) :
                               misplaced[m].suggestedLocation
                                   = LocationOf(c, ls[a])

\* C10: enhanceCommentLocations returns one entry per input comment, in input
\* order; an entry has file and line rewritten to the single best match and
\* carries its confidence iff that confidence is at least minConfidence, and
\* is otherwise the input comment unchanged, without a confidence.
C10_EnhancedEntries ==
    (Returned /\ opts.enableFuzzyMatching) =>
        /\ Len(enhanced) = Len(comments)
        /\ \A j \in DOMAIN comments :
               LET c == comments[j]
                   best == BestLoaded(c)
               IN  IF /\ IsDefined(best)
                      /\ best[1].confidence >= matcherOptions(opts).minConfidence
                   THEN enhanced[j] =
                            [file |-> best[1].file, line |-> best[1].line,
                             confidence |-> <<best[1].confidence>>,
                             severity |-> c.severity, smell |-> c.smell,
                             rationale |-> c.rationale,
                             suggestion |-> c.suggestion]
                   ELSE enhanced[j] = c /\ ~IsDefined(enhanced[j].confidence)

----------------------------------------------------------------------------
(* C11                                                                     *)

\* the fields of a comment that relocation may not touch
ContentOf(c) ==
    [severity |-> c.severity, smell |-> c.smell,
     rationale |-> c.rationale, suggestion |-> c.suggestion]

\* the result refers to the input comments as they are, and a relocated
\* copy differs from its comment in file, line and confidence at most
C11_ResultFrame ==
    /\ \A i \in DOMAIN kept : kept[i] \in DOMAIN comments
    /\ \A d \in DOMAIN dropped : dropped[d].comment \in DOMAIN comments
    /\ \A m \in DOMAIN misplaced :
           /\ misplaced[m].comment \in DOMAIN comments
           /\ misplaced[m].originalLocation =
                  [file |-> comments[misplaced[m].comment].file,
                   line |-> comments[misplaced[m].comment].line]
    /\ \A j \in DOMAIN enhanced :
           ContentOf(enhanced[j]) = ContentOf(comments[j])

\* no step of verification writes to an input comment
C11_InputUntouched ==
    comments' = comments

\* C11: verification never mutates a comment except for relocation: kept,
\* dropped and misplaced hold the input comments themselves, which no step
\* changes (file and line included, also in fuzzy mode), and an enhanced
\* entry differs from its input comment at most in file, line and the added
\* confidence; severity, smell, rationale and suggestion never change.
C11_NoMutationButRelocation ==
    []C11_ResultFrame /\ [][C11_InputUntouched]_vars

\* C11 witness: a fuzzy call has returned with a kept comment that is also
\* reported misplaced and relocated in enhanced, and with a dropped comment.
C11_Witness ==
    /\ Returned
    /\ opts.enableFuzzyMatching
    /\ dropped # <<>>
    /\ \E i \in DOMAIN kept :
           /\ \E m \in DOMAIN misplaced : misplaced[m].comment = kept[i]
           /\ enhanced[kept[i]].line # comments[kept[i]].line
           /\ IsDefined(enhanced[kept[i]].confidence)

----------------------------------------------------------------------------
(* Part 2: the diff chunker (chunkParsedDiff)                              *)

\* the default of the parameter maxTokensPerChunk
DefaultMaxTokensPerChunk ==
    1200

\* Math.ceil(n / 4) for a length n
CeilQuarter(n) ==
    (n + 3) \div 4

\* lines.reduce((acc, l) => acc + Math.ceil(l.content.length / 4), 0)
RECURSIVE lengthCost(_)
lengthCost(lines) ==
    IF lines = <<>> THEN 0
    ELSE lengthCost(SubSeq(lines, 1, Len(lines) - 1))
             + CeilQuarter(Len(lines[Len(lines)].content))

\* estimateHunkTokens(lines)
estimateHunkTokens(lines) ==
    LET base == 32 + Len(lines) * 2
    IN  MaxOf(80, base + lengthCost(lines))

\* the condition under which a new chunk is opened, with the estimate of the
\* hunk left out of the sum
needsNewChunkIgnoringEst(cur, est, maxTokens, path) ==
    \/ cur = <<>>
    \/ cur[1].tokenEstimate > maxTokens
    \/ cur[1].filePath # path

\* !current || current.tokenEstimate + est > maxTokensPerChunk
\*          || current.filePath !== file.path
needsNewChunk(cur, est, maxTokens, path) ==
    \/ cur = <<>>
    \/ cur[1].tokenEstimate + est > maxTokens
    \/ cur[1].filePath # path

\* the open chunk is discarded instead of pushed
pushCurrentNever(chs, cur) ==
    chs

\* if (current) chunks.push(current)
pushCurrent(chs, cur) ==
    IF cur # <<>> THEN Append(chs, cur[1]) ELSE chs

\* Lines 9-11: the call; the default budget applies when none is given.
ChunkStart ==
    /\ chunkPc = "start"
    /\ maxTokensPerChunk' = IF IsDefined(maxTokensPerChunk)
                            THEN maxTokensPerChunk
                            ELSE <<DefaultMaxTokensPerChunk>>
    /\ chunks' = <<>>
    /\ fileIndex' = 1
    /\ chunkPc' = "file"
    /\ UNCHANGED <<parsed, current, hunkIndex>>
    /\ UNCHANGED outsideChunk

\* Lines 11-13: the next file is entered with no open chunk.
ChunkEnterFile ==
    /\ chunkPc = "file"
    /\ fileIndex <= Len(parsed.files)
    /\ current' = <<>>
    /\ hunkIndex' = 0
    /\ chunkPc' = "hunk"
    /\ UNCHANGED <<parsed, maxTokensPerChunk, chunks, fileIndex>>
    /\ UNCHANGED outsideChunk

\* Lines 14-21: one iteration of the loop over the hunks of the file.
ChunkHunk ==
    /\ chunkPc = "hunk"
    /\ hunkIndex < Len(parsed.files[fileIndex].hunks)
    /\ LET file == parsed.files[fileIndex]
           h == file.hunks[hunkIndex + 1]
           est == estimateHunkTokens(h.addedLines)
           fresh == needsNewChunk(current, est, maxTokensPerChunk[1], file.path)
           opened == IF fresh
                     THEN [filePath |-> file.path, hunks |-> <<>>,
                           tokenEstimate |-> 0]
                     ELSE current[1]
       IN  /\ chunks' = IF fresh THEN pushCurrent(chunks, current) ELSE chunks
           /\ current' = <<[opened EXCEPT
                              !.hunks = Append(@, hunkIndex),
                              !.tokenEstimate = @ + est]>>
    /\ hunkIndex' = hunkIndex + 1
    /\ UNCHANGED <<parsed, maxTokensPerChunk, fileIndex, chunkPc>>
    /\ UNCHANGED outsideChunk

\* Line 23: the hunks of the file are done and the open chunk is pushed.
ChunkEndFile ==
    /\ chunkPc = "hunk"
    /\ hunkIndex >= Len(parsed.files[fileIndex].hunks)
    /\ chunks' = pushCurrent(chunks, current)
    /\ fileIndex' = fileIndex + 1
    /\ chunkPc' = "file"
    /\ UNCHANGED <<parsed, maxTokensPerChunk, current, hunkIndex>>
    /\ UNCHANGED outsideChunk

\* Line 26: all files are done and chunks is returned.
ChunkReturn ==
    /\ chunkPc = "file"
    /\ fileIndex > Len(parsed.files)
    /\ chunkPc' = "done"
    /\ UNCHANGED <<parsed, maxTokensPerChunk, chunks, current, fileIndex,
                   hunkIndex>>
    /\ UNCHANGED outsideChunk

----------------------------------------------------------------------------
(* Inputs of the chunker                                                   *)

\* the most hunks of the first file
MaxHunks ==
    3

\* a string of n characters
Repeat(ch, n) ==
    [k \in 1..n |-> ch]

\* a hunk of a file with the given added-line contents, numbered from start
Hunk(path, start, contents) ==
    [filePath |-> path,
     targetStart |-> start,
     targetEnd |-> start + MaxOf(Len(contents), 1) - 1,
     addedLines |-> [k \in DOMAIN contents |->
                        [lineNumber |-> start + k - 1, content |-> contents[k]]]]

\* added-line contents of estimate 80 (the floor), 100 and 209
NoLines ==
    <<>>

OneLongLine ==
    <<Repeat("x", 264)>>

OneHugeLine ==
    <<Repeat("y", 700)>>

\* twenty one-character lines: estimate 32 + 40 + 20 = 92
TwentyLines ==
    [k \in 1..20 |-> <<"z">>]

HunkContents ==
    {NoLines, OneLongLine, OneHugeLine, TwentyLines}

\* the hunk lists of the first file
HunkLists(path) ==
    UNION {[1..n -> {Hunk(path, 1, c) : c \in HunkContents}] : n \in 0..MaxHunks}

\* the hunk lists of the second file
SecondFileHunks ==
    {<<>>, <<Hunk(FileB, 1, OneLongLine)>>,
     <<Hunk(FileB, 1, NoLines), Hunk(FileB, 9, TwentyLines)>>}

\* the second file is absent, or follows the first
ParsedDiffs ==
    {[files |-> <<[path |-> FileA, status |-> "M", hunks |-> hs]>> \o rest,
      summary |-> [added |-> 0, deleted |-> 0, filesChanged |-> 1 + Len(rest)]] :
         hs \in HunkLists(FileA),
         rest \in {<<>>} \cup {<<[path |-> FileB, status |-> "M", hunks |-> h2]>> :
                                  h2 \in SecondFileHunks}}

\* the budget argument: not given, or one of these
BudgetChoices ==
    {Undefined, <<0>>, <<0 - 5>>, <<100>>, <<180>>, <<200>>}

InitChunk ==
    /\ parsed \in ParsedDiffs
    /\ maxTokensPerChunk \in BudgetChoices
    /\ chunks = <<>>
    /\ current = <<>>
    /\ fileIndex = 0
    /\ hunkIndex = 0
    /\ chunkPc = "start"
    /\ OutsideChunkIdle

NextChunk ==
    \/ ChunkStart
    \/ ChunkEnterFile
    \/ ChunkHunk
    \/ ChunkEndFile
    \/ ChunkReturn

SpecChunk ==
    InitChunk /\ [][NextChunk]_vars

----------------------------------------------------------------------------
(* C12 - C14                                                               *)

\* chunkParsedDiff has returned chunks
ChunkReturned ==
    chunkPc = "done"

\* the positions in parsed.files of the files with a path
FilesWithPath(path) ==
    {f \in DOMAIN parsed.files : parsed.files[f].path = path}

\* the hunk indices of the chunks of a path, concatenated in output order
RECURSIVE HunksOfPath(_, _)
HunksOfPath(chs, path) ==
    IF chs = <<>> THEN <<>>
    ELSE (IF chs[1].filePath = path THEN chs[1].hunks ELSE <<>>)
             \o HunksOfPath(Tail(chs), path)

\* C12: chunkParsedDiff is lossless and order-preserving: every chunk holds
\* hunk indices of exactly one file, its filePath; chunks appear in file
\* order; and for each file the hunk indices of its chunks, concatenated in
\* output order, are exactly 0..n-1: no hunk is dropped or chunked twice.
C12_LosslessInOrder ==
    ChunkReturned =>
        /\ \A c \in DOMAIN chunks :
               \E f \in FilesWithPath(chunks[c].filePath) :
                   \A k \in DOMAIN chunks[c].hunks :
                       chunks[c].hunks[k] \in 0..(Len(parsed.files[f].hunks) - 1)
        /\ \A c, d \in DOMAIN chunks :
               c < d => \A f \in FilesWithPath(chunks[c].filePath),
                           g \in FilesWithPath(chunks[d].filePath) : f <= g
        /\ \A f \in DOMAIN parsed.files :
               HunksOfPath(chunks, parsed.files[f].path)
                   = [k \in 1..Len(parsed.files[f].hunks) |-> k - 1]

\* C12 witness: two files were chunked, the first into more than one chunk.
C12_Witness ==
    /\ ChunkReturned
    /\ Len(parsed.files) = 2
    /\ Len(chunks) >= 3
    /\ chunks[1].filePath = chunks[2].filePath
    /\ chunks[Len(chunks)].filePath # chunks[1].filePath

\* the estimate of hunk i (0-based) of the file a chunk names
EstimateOf(chunk, i) ==
    LET f == CHOOSE g \in FilesWithPath(chunk.filePath) : TRUE
    IN  estimateHunkTokens(parsed.files[f].hunks[i + 1].addedLines)

RECURSIVE SumEstimates(_, _)
SumEstimates(chunk, k) ==
    IF k = 0 THEN 0
    ELSE SumEstimates(chunk, k - 1) + EstimateOf(chunk, chunk.hunks[k])

\* C13: with a positive budget, the tokenEstimate of every chunk (the sum of
\* the estimates of its hunks) is at most the budget unless the chunk is
\* exactly one hunk whose own estimate exceeds the budget; such a hunk is
\* still emitted as its own chunk, and every chunk has at least one hunk.
C13_BudgetRespected ==
    (ChunkReturned /\ maxTokensPerChunk[1] > 0) =>
        /\ \A c \in DOMAIN chunks :
               /\ Len(chunks[c].hunks) >= 1
               /\ chunks[c].tokenEstimate
                      = SumEstimates(chunks[c], Len(chunks[c].hunks))
               /\ \/ chunks[c].tokenEstimate <= maxTokensPerChunk[1]
                  \/ /\ Len(chunks[c].hunks) = 1
                     /\ EstimateOf(chunks[c], chunks[c].hunks[1])
                            > maxTokensPerChunk[1]
        /\ \A f \in DOMAIN parsed.files :
               \A i \in 0..(Len(parsed.files[f].hunks) - 1) :
                   estimateHunkTokens(parsed.files[f].hunks[i + 1].addedLines)
                       > maxTokensPerChunk[1]
                   => \E c \in DOMAIN chunks :
                          /\ chunks[c].filePath = parsed.files[f].path
                          /\ chunks[c].hunks = <<i>>

\* C13 witness: under a positive budget one chunk fills the budget exactly
\* with two hunks and another is a single hunk above the budget.
C13_Witness ==
    /\ ChunkReturned
    /\ maxTokensPerChunk[1] > 0
    /\ \E c \in DOMAIN chunks :
           /\ Len(chunks[c].hunks) = 2
           /\ chunks[c].tokenEstimate = maxTokensPerChunk[1]
    /\ \E c \in DOMAIN chunks :
           /\ Len(chunks[c].hunks) = 1
           /\ chunks[c].tokenEstimate > maxTokensPerChunk[1]

\* C14: a call of chunkParsedDiff with a non-positive budget is rejected
\* with an error: it never returns a chunk list.
C14_NonPositiveBudgetRejected ==
    (chunkPc # "idle" /\ IsDefined(maxTokensPerChunk)
         /\ maxTokensPerChunk[1] <= 0)
        => ~ChunkReturned

----------------------------------------------------------------------------
(* Part 3: the diff parser (analyzeUnifiedDiff), both implementations      *)

\* String.prototype.startsWith
startsWith(s, prefix) ==
    Len(s) >= Len(prefix) /\ SubSeq(s, 1, Len(prefix)) = prefix

\* diffText.split("\n"): the pieces between the line feeds
splitNewline(text) ==
    LET feeds == {k \in DOMAIN text : text[k] = "\n"}
        n == Cardinality(feeds)
        Feed(i) == IF i = 0 THEN 0
                   ELSE IF i > n THEN Len(text) + 1
                   ELSE CHOOSE p \in feeds :
                            Cardinality({q \in feeds : q < p}) = i - 1
    IN  [i \in 1..(n + 1) |-> SubSeq(text, Feed(i - 1) + 1, Feed(i) - 1)]

PrefixDiffGit ==
    <<"d", "i", "f", "f", " ", "-", "-", "g", "i", "t">>

PrefixToFile ==
    <<"+", "+", "+", " ">>

PrefixToFileB ==
    <<"+", "+", "+", " ", "b", "/">>

PrefixHunk ==
    <<"@", "@">>

PrefixPlus ==
    <<"+">>

PrefixTriplePlus ==
    <<"+", "+", "+">>

PrefixMinus ==
    <<"-">>

PrefixTripleMinus ==
    <<"-", "-", "-">>

PrefixIndex ==
    <<"i", "n", "d", "e", "x">>

UnknownPath ==
    <<"u", "n", "k", "n", "o", "w", "n">>

DevNull ==
    <<"/", "d", "e", "v", "/", "n", "u", "l", "l">>

\* the value of a decimal digit
DigitValue(ch) ==
    (CHOOSE k \in DOMAIN Digits : Digits[k] = ch) - 1

\* Number.parseInt(digits, 10) of a non-empty run of digits
RECURSIVE parseIntDigits(_)
parseIntDigits(digits) ==
    IF digits = <<>> THEN 0
    ELSE parseIntDigits(SubSeq(digits, 1, Len(digits) - 1)) * 10
             + DigitValue(digits[Len(digits)])

\* the characters "." of a regular expression without the s flag does not
\* match
LineTerminators ==
    {"\n", "\r", "\\u2028", "\\u2029"}

\* line.match(/^\+\+\+ b\/(.*)$/): the captured path, or null; "." matches
\* no line terminator
matchToFile(line) ==
    IF startsWith(line, PrefixToFileB)
       /\ \A k \in DOMAIN line : line[k] \notin LineTerminators
    THEN <<SubSeq(line, Len(PrefixToFileB) + 1, Len(line))>>
    ELSE <<>>

\* line.match(/\+([0-9]+)(?:,([0-9]+))?/): the first "+" that a digit
\* follows, with the longest run of digits after it; m[1], or null
matchHunkStart(line) ==
    LET IsDigit(k) == k \in DOMAIN line /\ line[k] \in Range(Digits)
        starts == {k \in DOMAIN line : line[k] = "+" /\ IsDigit(k + 1)}
    IN  IF starts = {} THEN <<>>
        ELSE LET first == CHOOSE k \in starts : \A j \in starts : k <= j
                 last == CHOOSE e \in (first + 1)..Len(line) :
                             /\ \A j \in (first + 1)..e : IsDigit(j)
                             /\ ~IsDigit(e + 1)
             IN  <<SubSeq(line, first + 1, last)>>

\* the branch of the loop body that a line takes
lineKind(line) ==
    IF startsWith(line, PrefixDiffGit) THEN "git"
    ELSE IF startsWith(line, PrefixToFile) THEN "tofile"
    ELSE IF startsWith(line, PrefixHunk) THEN "hunk"
    ELSE IF startsWith(line, PrefixPlus) /\ ~startsWith(line, PrefixTriplePlus)
    THEN "added"
    ELSE IF startsWith(line, PrefixMinus) /\ ~startsWith(line, PrefixTripleMinus)
    THEN "deleted"
    ELSE IF /\ ~startsWith(line, PrefixDiffGit)
            /\ ~startsWith(line, PrefixIndex)
            /\ ~startsWith(line, PrefixTripleMinus)
            /\ ~startsWith(line, PrefixTriplePlus)
            /\ ~startsWith(line, PrefixHunk)
    THEN "context"
    ELSE "ignored"

\* a JavaScript string or null is truthy
Truthy(optional) ==
    optional # <<>> /\ optional[1] # <<>>

\* flushFile: the entry pushed to files
flushFile(fs, path, hunks) ==
    IF Truthy(path)
    THEN Append(fs, [path |-> path[1], status |-> "M", hunks |-> hunks])
    ELSE fs

\* the last hunk keeps its targetEnd when a line is added
endAfterAddedStale(h, line) ==
    h.targetEnd

\* h.targetEnd = Math.max(h.targetEnd, targetLine)
endAfterAdded(h, line) ==
    MaxOf(h.targetEnd, line)

\* the hunks after an added line with the content
hunksAfterAdded(hunks, line, content) ==
    IF Len(hunks) > 0
    THEN [hunks EXCEPT ![Len(hunks)] =
              [@ EXCEPT !.addedLines =
                            Append(@, [lineNumber |-> line, content |-> content]),
                        !.targetEnd = endAfterAdded(hunks[Len(hunks)], line)]]
    ELSE hunks

\* the hunks after a context line
hunksAfterContext(hunks, line) ==
    IF Len(hunks) > 0
    THEN [hunks EXCEPT ![Len(hunks)] =
              [@ EXCEPT !.targetEnd = MaxOf(@, line)]]
    ELSE hunks

\* Lines 4-20: the call; the text is split into lines.
DiffStart ==
    /\ diffPc = "start"
    /\ diffLines' = splitNewline(diffText)
    /\ lineIndex' = 1
    /\ diffFiles' = <<>>
    /\ currentPath' = <<>>
    /\ currentHunks' = <<>>
    /\ added' = 0
    /\ deleted' = 0
    /\ targetLineStart' = 0
    /\ targetLine' = 0
    /\ diffPc' = "loop"
    /\ UNCHANGED <<diffSource, diffText, parseDiffFiles, diffResult>>
    /\ UNCHANGED outsideDiff

\* Lines 22-74: one iteration of the loop over the lines.
DiffLine ==
    /\ diffPc = "loop"
    /\ lineIndex <= Len(diffLines)
    /\ LET line == diffLines[lineIndex]
           kind == lineKind(line)
       IN  CASE kind = "git" ->
                    /\ diffFiles' = flushFile(diffFiles, currentPath, currentHunks)
                    /\ currentPath' = <<>>
                    /\ currentHunks' = <<>>
                    /\ UNCHANGED <<added, deleted, targetLineStart, targetLine>>
             [] kind = "tofile" ->
                    /\ currentPath' = IF matchToFile(line) # <<>>
                                      THEN matchToFile(line)
                                      ELSE <<UnknownPath>>
                    /\ UNCHANGED <<diffFiles, currentHunks, added, deleted,
                                   targetLineStart, targetLine>>
             [] kind = "hunk" ->
                    LET m == matchHunkStart(line)
                        start == IF m # <<>> THEN parseIntDigits(m[1]) ELSE 1
                    IN  /\ targetLineStart' = start
                        /\ targetLine' = start
                        /\ currentHunks' =
                               Append(currentHunks,
                                      [filePath |-> IF Truthy(currentPath)
                                                    THEN currentPath[1]
                                                    ELSE UnknownPath,
                                       targetStart |-> start,
                                       targetEnd |-> start,
                                       addedLines |-> <<>>])
                        /\ UNCHANGED <<diffFiles, currentPath, added, deleted>>
             [] kind = "added" ->
                    /\ added' = added + 1
                    /\ currentHunks' = hunksAfterAdded(currentHunks, targetLine,
                                                       Tail(line))
                    /\ targetLine' = targetLine + 1
                    /\ UNCHANGED <<diffFiles, currentPath, deleted, targetLineStart>>
             [] kind = "deleted" ->
                    /\ deleted' = deleted + 1
                    /\ UNCHANGED <<diffFiles, currentPath, currentHunks, added,
                                   targetLineStart, targetLine>>
             [] kind = "context" ->
                    /\ currentHunks' = hunksAfterContext(currentHunks, targetLine)
                    /\ targetLine' = targetLine + 1
                    /\ UNCHANGED <<diffFiles, currentPath, added, deleted,
                                   targetLineStart>>
             [] kind = "ignored" ->
                    UNCHANGED <<diffFiles, currentPath, currentHunks, added, deleted,
                                targetLineStart, targetLine>>
    /\ lineIndex' = lineIndex + 1
    /\ UNCHANGED <<diffSource, diffText, parseDiffFiles, diffLines, diffResult,
                   diffPc>>
    /\ UNCHANGED outsideDiff

\* Lines 76-81: the last file is flushed and the ParsedDiff is returned.
DiffReturn ==
    /\ diffPc = "loop"
    /\ lineIndex > Len(diffLines)
    /\ diffFiles' = flushFile(diffFiles, currentPath, currentHunks)
    /\ currentPath' = <<>>
    /\ currentHunks' = <<>>
    /\ diffResult' = <<[files |-> diffFiles',
                        summary |-> [added |-> added, deleted |-> deleted,
                                     filesChanged |-> Len(diffFiles')]]>>
    /\ diffPc' = "done"
    /\ UNCHANGED <<diffSource, diffText, parseDiffFiles, diffLines, lineIndex,
                   added, deleted, targetLineStart, targetLine>>
    /\ UNCHANGED outsideDiff

\* file.to.replace(/^b\//, '') and file.from.replace(/^a\//, '')
stripPrefix(s, prefix) ==
    IF startsWith(s, prefix) THEN SubSeq(s, Len(prefix) + 1, Len(s)) ELSE s

PrefixA ==
    <<"a", "/">>

PrefixB ==
    <<"b", "/">>

\* getFilePath(file) on a file object of parse-diff
getFilePath(file) ==
    IF Truthy(file.to) /\ file.to[1] # DevNull
    THEN stripPrefix(file.to[1], PrefixB)
    ELSE IF Truthy(file.from) /\ file.from[1] # DevNull
    THEN stripPrefix(file.from[1], PrefixA)
    ELSE UnknownPath

\* getFileStatus(file)
getFileStatus(file) ==
    IF file.new THEN "A"
    ELSE IF file.deleted THEN "D"
    ELSE IF Truthy(file.from) /\ Truthy(file.to) /\ file.from # file.to THEN "R"
    ELSE "M"

\* the added lines of the changes of a chunk
RECURSIVE addedLinesOf(_)
addedLinesOf(changes) ==
    IF changes = <<>> THEN <<>>
    ELSE (IF Head(changes).type = "add"
          THEN <<[lineNumber |-> Head(changes).ln,
                  content |-> Head(changes).content]>>
          ELSE <<>>) \o addedLinesOf(Tail(changes))

\* convertChunksToLegacyHunks(chunks, filePath)
convertChunksToLegacyHunks(chs, filePath) ==
    [k \in DOMAIN chs |->
        [filePath |-> filePath,
         targetStart |-> chs[k].newStart,
         targetEnd |-> chs[k].newStart + chs[k].newLines - 1,
         addedLines |-> addedLinesOf(chs[k].changes)]]

\* files.reduce((sum, file) => sum + file[field], 0)
RECURSIVE sumField(_, _)
sumField(fs, field) ==
    IF fs = <<>> THEN 0
    ELSE fs[1][field] + sumField(Tail(fs), field)

\* Lines 17-51 of diff-parse.ts, analyzeUnifiedDiffEnhanced: the files of
\* parse-diff are given their path and status and the totals are summed.
LegacyEnhance ==
    /\ diffPc = "parsed"
    /\ diffFiles' = [k \in DOMAIN parseDiffFiles |->
                        [path |-> getFilePath(parseDiffFiles[k]),
                         status |-> getFileStatus(parseDiffFiles[k]),
                         chunks |-> parseDiffFiles[k].chunks,
                         additions |-> parseDiffFiles[k].additions,
                         deletions |-> parseDiffFiles[k].deletions]]
    /\ added' = sumField(parseDiffFiles, "additions")
    /\ deleted' = sumField(parseDiffFiles, "deletions")
    /\ diffPc' = "enhanced"
    /\ UNCHANGED <<diffSource, diffText, parseDiffFiles, diffLines, lineIndex,
                   currentPath, currentHunks, targetLineStart, targetLine,
                   diffResult>>
    /\ UNCHANGED outsideDiff

\* Lines 60-78 of diff-parse.ts, analyzeUnifiedDiff: the enhanced files are
\* converted to the legacy format and returned.
LegacyConvert ==
    /\ diffPc = "enhanced"
    /\ diffResult' =
           <<[files |-> [k \in DOMAIN diffFiles |->
                            [path |-> diffFiles[k].path,
                             status |-> diffFiles[k].status,
                             hunks |-> convertChunksToLegacyHunks(
                                           diffFiles[k].chunks,
                                           diffFiles[k].path)]],
              summary |-> [added |-> added, deleted |-> deleted,
                           filesChanged |-> Len(diffFiles)]]>>
    /\ diffPc' = "done"
    /\ UNCHANGED <<diffSource, diffText, parseDiffFiles, diffLines, lineIndex,
                   diffFiles, currentPath, currentHunks, added, deleted,
                   targetLineStart, targetLine>>
    /\ UNCHANGED outsideDiff

----------------------------------------------------------------------------
(* Inputs of the diff parser: unified diffs as git writes them             *)

\* the most lines of the first hunk of a diff
MaxBodyLines ==
    3

PathA ==
    <<"a", ".", "t", "s">>

PathB ==
    <<"b", ".", "t", "s">>

PathC ==
    <<"c", ".", "t", "s">>

TextDiffGitA ==
    <<"d", "i", "f", "f", " ", "-", "-", "g", "i", "t", " ", "a",
      "/">>

TextSpaceB ==
    <<" ", "b", "/">>

TextNewFileMode ==
    <<"n", "e", "w", " ", "f", "i", "l", "e", " ", "m", "o", "d",
      "e", " ", "1", "0", "0", "6", "4", "4">>

TextDeletedFileMode ==
    <<"d", "e", "l", "e", "t", "e", "d", " ", "f", "i", "l", "e",
      " ", "m", "o", "d", "e", " ", "1", "0", "0", "6", "4", "4">>

TextSimilarity ==
    <<"s", "i", "m", "i", "l", "a", "r", "i", "t", "y", " ", "i",
      "n", "d", "e", "x", " ", "9", "0", "%">>

TextRenameFrom ==
    <<"r", "e", "n", "a", "m", "e", " ", "f", "r", "o", "m", " ">>

TextRenameTo ==
    <<"r", "e", "n", "a", "m", "e", " ", "t", "o", " ">>

TextIndex ==
    <<"i", "n", "d", "e", "x", " ", "1", "a", "2", "b", ".", ".",
      "3", "c", "4", "d", " ", "1", "0", "0", "6", "4", "4">>

TextFromA ==
    <<"-", "-", "-", " ", "a", "/">>

TextFromNull ==
    <<"-", "-", "-", " ", "/", "d", "e", "v", "/", "n", "u", "l",
      "l">>

TextToB ==
    <<"+", "+", "+", " ", "b", "/">>

TextToNull ==
    <<"+", "+", "+", " ", "/", "d", "e", "v", "/", "n", "u", "l",
      "l">>

TextHunkOpen ==
    <<"@", "@", " ", "-">>

TextHunkMid ==
    <<" ", "+">>

TextHunkClose ==
    <<" ", "@", "@">>

TextNoNewline ==
    <<" ", "N", "o", " ", "n", "e", "w", "l", "i", "n", "e", " ",
      "a", "t", " ", "e", "n", "d", " ", "o", "f", " ", "f", "i",
      "l", "e">>

TextPlusPlus ==
    <<"+", "+", "i">>

TextMinusMinus ==
    <<"-", "-", "j">>

\* the lines of a hunk body: an added, a deleted and a context line, an
\* added line whose content starts with "++", a deleted line whose content
\* starts with "--", and the marker after a last line without a newline
AddedX ==
    [sign |-> "+", text |-> <<"x">>]

DeletedY ==
    [sign |-> "-", text |-> <<"y">>]

ContextZ ==
    [sign |-> " ", text |-> <<"z">>]

AddedPlusPlus ==
    [sign |-> "+", text |-> TextPlusPlus]

DeletedMinusMinus ==
    [sign |-> "-", text |-> TextMinusMinus]

NoNewlineMarker ==
    [sign |-> "\\", text |-> TextNoNewline]

\* a decimal number below 100 as text
numStr(n) ==
    IF n < 10 THEN <<Digits[n + 1]>>
    ELSE <<Digits[(n \div 10) + 1], Digits[(n % 10) + 1]>>

\* the number of lines of a body with one of the signs
RECURSIVE countSigns(_, _)
countSigns(body, signs) ==
    IF body = <<>> THEN 0
    ELSE (IF Head(body).sign \in signs THEN 1 ELSE 0)
             + countSigns(Tail(body), signs)

\* "@@ -oldStart,oldLines +newStart,newLines @@"
hunkHeader(h) ==
    TextHunkOpen \o numStr(h.oldStart) \o <<",">>
        \o numStr(countSigns(h.body, {"-", " "}))
        \o TextHunkMid \o numStr(h.newStart) \o <<",">>
        \o numStr(countSigns(h.body, {"+", " "})) \o TextHunkClose

RECURSIVE hunkLines(_)
hunkLines(hs) ==
    IF hs = <<>> THEN <<>>
    ELSE <<hunkHeader(Head(hs))>>
             \o [k \in DOMAIN Head(hs).body |->
                    <<Head(hs).body[k].sign>> \o Head(hs).body[k].text]
             \o hunkLines(Tail(hs))

\* the header lines git writes for a file, by the kind of its change
headerLines(f) ==
    <<TextDiffGitA \o f.oldPath \o TextSpaceB \o f.newPath>>
        \o (CASE f.kind = "added" -> <<TextNewFileMode>>
              [] f.kind = "deleted" -> <<TextDeletedFileMode>>
              [] f.kind = "renamed" ->
                     <<TextSimilarity, TextRenameFrom \o f.oldPath,
                       TextRenameTo \o f.newPath>>
              [] OTHER -> <<>>)
        \o <<TextIndex>>
        \o <<IF f.kind = "added" THEN TextFromNull ELSE TextFromA \o f.oldPath>>
        \o <<IF f.kind = "deleted" THEN TextToNull ELSE TextToB \o f.newPath>>

RECURSIVE fileLines(_)
fileLines(fs) ==
    IF fs = <<>> THEN <<>>
    ELSE headerLines(Head(fs)) \o hunkLines(Head(fs).hunks)
             \o fileLines(Tail(fs))

\* the lines, each ended by a line feed
RECURSIVE joinLines(_)
joinLines(ls) ==
    IF ls = <<>> THEN <<>>
    ELSE Head(ls) \o <<"\n">> \o joinLines(Tail(ls))

\* the text of the diff of the files
Render(fs) ==
    joinLines(fileLines(fs))

\* the changes parse-diff reports for the lines of a chunk from position k,
\* with the old-side and new-side line numbers reached
RECURSIVE changesFrom(_, _, _, _)
changesFrom(body, k, oldLn, newLn) ==
    IF k > Len(body) THEN <<>>
    ELSE LET l == body[k]
             content == <<l.sign>> \o l.text
         IN  CASE l.sign = "+" ->
                      <<[type |-> "add", ln |-> newLn, content |-> content]>>
                          \o changesFrom(body, k + 1, oldLn, newLn + 1)
               [] l.sign = "-" ->
                      <<[type |-> "del", ln |-> oldLn, content |-> content]>>
                          \o changesFrom(body, k + 1, oldLn + 1, newLn)
               [] OTHER ->
                      <<[type |-> "normal", ln1 |-> oldLn, ln2 |-> newLn,
                         content |-> content]>>
                          \o changesFrom(body, k + 1, oldLn + 1, newLn + 1)

\* the number of lines with one of the signs in all hunks
RECURSIVE countInHunks(_, _)
countInHunks(hs, signs) ==
    IF hs = <<>> THEN 0
    ELSE countSigns(Head(hs).body, signs) + countInHunks(Tail(hs), signs)

\* the file objects parse-diff returns for the diff of the files (bodies of
\* added, deleted and context lines), as the library documents them: from
\* and to without the a/ and b/ prefixes, /dev/null for the absent side,
\* new and deleted from the mode lines, one chunk per hunk
parseDiff(fs) ==
    [k \in DOMAIN fs |->
        LET f == fs[k]
        IN  [from |-> <<IF f.kind = "added" THEN DevNull ELSE f.oldPath>>,
             to |-> <<IF f.kind = "deleted" THEN DevNull ELSE f.newPath>>,
             new |-> f.kind = "added",
             deleted |-> f.kind = "deleted",
             additions |-> countInHunks(f.hunks, {"+"}),
             deletions |-> countInHunks(f.hunks, {"-"}),
             chunks |-> [j \in DOMAIN f.hunks |->
                            [content |-> hunkHeader(f.hunks[j]),
                             oldStart |-> f.hunks[j].oldStart,
                             oldLines |-> countSigns(f.hunks[j].body, {"-", " "}),
                             newStart |-> f.hunks[j].newStart,
                             newLines |-> countSigns(f.hunks[j].body, {"+", " "}),
                             changes |-> changesFrom(f.hunks[j].body, 1,
                                                     f.hunks[j].oldStart,
                                                     f.hunks[j].newStart)]]]]

\* the lines a hunk body may hold, by the kind of change of its file
PlainLines(kind) ==
    CASE kind = "added" -> {AddedX}
      [] kind = "deleted" -> {DeletedY}
      [] OTHER -> {AddedX, DeletedY, ContextZ}

AllLines(kind) ==
    CASE kind = "added" -> {AddedX, AddedPlusPlus}
      [] kind = "deleted" -> {DeletedY, DeletedMinusMinus}
      [] OTHER -> {AddedX, DeletedY, ContextZ, AddedPlusPlus,
                   DeletedMinusMinus}

\* the non-empty bodies of up to MaxBodyLines of the lines
Bodies(lines) ==
    UNION {[1..n -> lines] : n \in 1..MaxBodyLines}

\* ... and the same with the marker after the last line
MarkedBodies(lines) ==
    Bodies(lines) \cup {Append(b, NoNewlineMarker) : b \in Bodies(lines)}

ChangeKinds ==
    {"modified", "added", "deleted", "renamed"}

\* the first hunk of a file: where git places it for the kind of change
FirstHunk(kind, body) ==
    CASE kind = "added" -> [oldStart |-> 0, newStart |-> 1, body |-> body]
      [] kind = "deleted" -> [oldStart |-> 1, newStart |-> 0, body |-> body]
      [] kind = "renamed" -> [oldStart |-> 3, newStart |-> 3, body |-> body]
      [] OTHER -> [oldStart |-> 10, newStart |-> 12, body |-> body]

\* a later hunk of the same file
SecondHunk ==
    [oldStart |-> 30, newStart |-> 34, body |-> <<ContextZ, AddedX, AddedX>>]

\* the first file of a diff, with one hunk or (when the file is on both
\* sides) possibly two
FirstFiles(kind, bodies) ==
    {[kind |-> kind,
      oldPath |-> PathA,
      newPath |-> IF kind = "renamed" THEN PathB ELSE PathA,
      hunks |-> <<FirstHunk(kind, b)>> \o more] :
         b \in bodies,
         more \in IF kind \in {"added", "deleted"}
                  THEN {<<>>} ELSE {<<>>, <<SecondHunk>>}}

\* a second file of a diff
SecondFile ==
    [kind |-> "modified", oldPath |-> PathC, newPath |-> PathC,
     hunks |-> <<[oldStart |-> 7, newStart |-> 7,
                  body |-> <<DeletedY, AddedX>>]>>]

\* diffs of one file, and of that file followed by the second file
DiffsOf(firsts) ==
    {<<f>> : f \in firsts} \cup {<<f, SecondFile>> : f \in firsts}

\* the in-repository parser is given the text of any of the diffs
InitText ==
    /\ \E kind \in ChangeKinds :
           diffSource \in DiffsOf(FirstFiles(kind, MarkedBodies(AllLines(kind))))
    /\ diffText = Render(diffSource)
    /\ parseDiffFiles = <<>>
    /\ diffPc = "start"

\* the parse-diff based parser is given what the library returns
InitLibrary ==
    /\ \E kind \in ChangeKinds :
           diffSource \in DiffsOf(FirstFiles(kind, Bodies(PlainLines(kind))))
    /\ diffText = Render(diffSource)
    /\ parseDiffFiles = parseDiff(diffSource)
    /\ diffPc = "parsed"

InitDiff ==
    /\ (InitText \/ InitLibrary)
    /\ diffLines = <<>>
    /\ lineIndex = 0
    /\ diffFiles = <<>>
    /\ currentPath = <<>>
    /\ currentHunks = <<>>
    /\ added = 0
    /\ deleted = 0
    /\ targetLineStart = 0
    /\ targetLine = 0
    /\ diffResult = <<>>
    /\ OutsideDiffIdle

NextDiff ==
    \/ DiffStart
    \/ DiffLine
    \/ DiffReturn
    \/ LegacyEnhance
    \/ LegacyConvert

SpecDiff ==
    InitDiff /\ [][NextDiff]_vars

----------------------------------------------------------------------------
(* C15 - C18                                                               *)

\* analyzeUnifiedDiff has returned its ParsedDiff
DiffReturned ==
    diffPc = "done"

ParsedResult ==
    diffResult[1]

\* the target line numbers of the added lines of a hunk body from position
\* k on, when the counter stands at line: added and context lines advance
\* the counter, deleted lines and the no-newline marker do not
RECURSIVE ExpectedNumbers(_, _, _)
ExpectedNumbers(body, k, line) ==
    IF k > Len(body) THEN <<>>
    ELSE CASE body[k].sign = "+" ->
                  <<line>> \o ExpectedNumbers(body, k + 1, line + 1)
           [] body[k].sign = " " -> ExpectedNumbers(body, k + 1, line + 1)
           [] OTHER -> ExpectedNumbers(body, k + 1, line)

\* the line numbers of the added lines of a parsed hunk
NumbersOf(h) ==
    [k \in DOMAIN h.addedLines |-> h.addedLines[k].lineNumber]

\* C15: added lines are numbered by a running target-line counter: a hunk
\* header sets it to the declared new-side start, every added and every
\* context line advances it by one and a deleted line does not; so the k-th
\* added line of a hunk has the hunk start plus the number of added and
\* context lines before it, and the numbers strictly increase in a hunk.
C15_RunningCounter ==
    DiffReturned =>
        /\ Len(ParsedResult.files) = Len(diffSource)
        /\ \A f \in DOMAIN diffSource :
               /\ Len(ParsedResult.files[f].hunks) = Len(diffSource[f].hunks)
               /\ \A j \in DOMAIN diffSource[f].hunks :
                      LET numbers == NumbersOf(ParsedResult.files[f].hunks[j])
                      IN  /\ numbers = ExpectedNumbers(
                                           diffSource[f].hunks[j].body, 1,
                                           diffSource[f].hunks[j].newStart)
                          /\ StrictlyIncreasing(numbers)

\* the number of added lines of parsed files
RECURSIVE CountAdded(_)
CountAdded(hs) ==
    IF hs = <<>> THEN 0
    ELSE Len(Head(hs).addedLines) + CountAdded(Tail(hs))

RECURSIVE CountAddedInFiles(_)
CountAddedInFiles(fs) ==
    IF fs = <<>> THEN 0
    ELSE CountAdded(Head(fs).hunks) + CountAddedInFiles(Tail(fs))

\* deleted; a deleted file is never reported as "unknown" or "/dev/null".
C17_PathOfEntry ==
    DiffReturned =>
        /\ Len(ParsedResult.files) = Len(diffSource)
        /\ \A f \in DOMAIN diffSource :
               /\ ParsedResult.files[f].path =
                      (IF diffSource[f].kind = "deleted"
                       THEN diffSource[f].oldPath
                       ELSE diffSource[f].newPath)
               /\ ParsedResult.files[f].path \notin {UnknownPath, DevNull}

\* the status letter of a kind of change
StatusOf(kind) ==
    CASE kind = "added" -> "A"
      [] kind = "deleted" -> "D"
      [] kind = "renamed" -> "R"
      [] OTHER -> "M"

\* C18: the status of a file entry is 'A' iff the file is newly created,
\* 'D' iff it is removed, 'R' iff it is neither and its old and new paths
\* differ, and 'M' otherwise.
C18_StatusOfEntry ==
    DiffReturned =>
        /\ Len(ParsedResult.files) = Len(diffSource)
        /\ \A f \in DOMAIN diffSource :
               ParsedResult.files[f].status = StatusOf(diffSource[f].kind)

----------------------------------------------------------------------------
(***************************************************************************)
(* Part 4: the code graph builder (buildCodeGraph).                        *)
(*                                                                         *)
(* An absolute path is the sequence of its segments below the root, each   *)
(* segment a sequence of characters; an import specifier is a sequence of  *)
(* characters.  The file system and what the oxc parser finds in a file    *)
(* are the environment: disk lists the files in the order readdir yields   *)
(* them, each with the outcome of readFile and of parseSync.  A worker     *)
(* runs without interruption from one await to the next, as JavaScript     *)
(* runs it: it is resumed when its readFile settles, and the readFile      *)
(* calls in flight settle in any order.                                    *)
(***************************************************************************)

MinConcurrency ==
    2

MaxConcurrency ==
    12

MinOf(a, b) ==
    IF a <= b THEN a ELSE b

\* Math.min(Math.max(2, os.cpus()?.length || 2), 12)
concurrencyOf(cpuCount) ==
    MinOf(MaxOf(MinConcurrency,
                IF cpuCount # 0 THEN cpuCount ELSE MinConcurrency),
          MaxConcurrency)

endsWith(s, suffix) ==
    /\ Len(s) >= Len(suffix)
    /\ SubSeq(s, Len(s) - Len(suffix) + 1, Len(s)) = suffix

ExtTs ==
    <<".", "t", "s">>

ExtTsx ==
    <<".", "t", "s", "x">>

ExtJs ==
    <<".", "j", "s">>

ExtJsx ==
    <<".", "j", "s", "x">>

\* the extensions resolveModule tries, in its order
CandidateExtensions ==
    <<ExtTs, ExtTsx, ExtJs, ExtJsx>>

IndexName ==
    <<"i", "n", "d", "e", "x">>

\* the directory names walkDir skips
IgnoredNames ==
    { <<"n", "o", "d", "e", "_", "m", "o", "d", "u", "l", "e", "s">>,
      <<"d", "i", "s", "t">>,
      <<"b", "u", "i", "l", "d">>,
      <<"o", "u", "t">>,
      <<".", "g", "i", "t">>,
      <<"c", "o", "v", "e", "r", "a", "g", "e">>,
      <<"_", "_", "s", "n", "a", "p", "s", "h", "o", "t", "s", "_", "_">>,
      <<"v", "e", "n", "d", "o", "r">> }

\* /\.(ts|tsx|js|jsx)$/.test(name)
isSourceName(name) ==
    \E k \in DOMAIN CandidateExtensions : endsWith(name, CandidateExtensions[k])

\* walkDir skips an entry whose name starts with "." or is an ignored name
isSkippedName(name) ==
    startsWith(name, <<".">>) \/ name \in IgnoredNames

\* discoverSourceFiles(root) rejects: the readdir of root does (ENOENT or
\* ENOTDIR), which walkDir does not catch, unless root is a directory of
\* the disk: the root of the file system or a directory that holds a file.
\* Every directory below root that walkDir enters is one readdir has listed.
discoverThrows(root, d) ==
    /\ root # <<>>
    /\ \A k \in DOMAIN d : ~IsUnder(root, d[k].abs)

\* discoverSourceFiles(root) when it does not reject: the source files
\* walkDir reaches below root
discoverSourceFiles(root, d) ==
    LET below(p) == SubSeq(p, Len(root) + 1, Len(p))
        Reached(f) ==
            /\ IsUnder(root, f.abs)
            /\ \A k \in DOMAIN below(f.abs) : ~isSkippedName(below(f.abs)[k])
            /\ isSourceName(f.abs[Len(f.abs)])
        found == SelectSeq(d, Reached)
    IN  [k \in DOMAIN found |-> found[k].abs]

DotDot ==
    <<".", ".">>

\* path.relative(from, to), as its segments
pathRelative(from, to) ==
    LET m == MinOf(Len(from), Len(to))
        same == {n \in 0..m : \A k \in 1..n : from[k] = to[k]}
        n == CHOOSE x \in same : \A y \in same : y <= x
    IN  [k \in 1..(Len(from) - n) |-> DotDot] \o SubSeq(to, n + 1, Len(to))

\* fileAbsToRel(abs): path.relative(repoDir, abs) with "/" separators
fileAbsToRel(repoDir, abs) ==
    pathRelative(repoDir, abs)

\* a test that lets every path pass as inside the repository
relStartsWithDotDotNever(toRel) ==
    FALSE

\* toRel.startsWith(".."), toRel being the segments joined by "/"
relStartsWithDotDot(toRel) ==
    toRel # <<>> /\ startsWith(toRel[1], DotDot)

\* the pieces of a path string between its "/"
RECURSIVE SplitSlashFrom(_, _, _)
SplitSlashFrom(s, k, acc) ==
    IF k > Len(s) THEN <<acc>>
    ELSE IF s[k] = "/" THEN <<acc>> \o SplitSlashFrom(s, k + 1, <<>>)
    ELSE SplitSlashFrom(s, k + 1, Append(acc, s[k]))

splitSlash(s) ==
    SplitSlashFrom(s, 1, <<>>)

\* path.dirname(abs)
dirname(abs) ==
    SubSeq(abs, 1, Len(abs) - 1)

\* path normalisation: "." and "" segments vanish and ".." removes the
\* segment before it (nothing at the root)
RECURSIVE NormalizePath(_, _)
NormalizePath(segs, acc) ==
    IF segs = <<>> THEN acc
    ELSE IF Head(segs) \in {<<".">>, <<>>}
    THEN NormalizePath(Tail(segs), acc)
    ELSE IF Head(segs) = DotDot
    THEN NormalizePath(Tail(segs),
                       IF acc = <<>> THEN acc
                       ELSE SubSeq(acc, 1, Len(acc) - 1))
    ELSE NormalizePath(Tail(segs), Append(acc, Head(segs)))

\* path.resolve(dir, spec): an absolute spec replaces dir
pathResolve(dir, spec) ==
    IF startsWith(spec, <<"/">>)
    THEN NormalizePath(splitSlash(spec), <<>>)
    ELSE NormalizePath(dir \o splitSlash(spec), <<>>)

\* !spec.startsWith(".") && !spec.startsWith("/") is false: not external
isLocalSpec(spec) ==
    startsWith(spec, <<".">>) \/ startsWith(spec, <<"/">>)

\* `${base}.ts`: the extension is added to the path string
withExtension(base, ext) ==
    IF base = <<>> THEN <<ext>>
    ELSE [base EXCEPT ![Len(base)] = @ \o ext]

\* candidates of resolveModule
candidatesOf(fromAbs, spec) ==
    LET base == pathResolve(dirname(fromAbs), spec)
    IN  <<base>>
        \o [k \in DOMAIN CandidateExtensions |->
                withExtension(base, CandidateExtensions[k])]
        \o [k \in DOMAIN CandidateExtensions |->
                Append(base, IndexName \o CandidateExtensions[k])]

\* await stat(p) does not throw: p is a file or a directory on the disk
statSucceeds(d, p) ==
    \/ p = <<>>
    \/ \E k \in DOMAIN d : d[k].abs = p \/ IsUnder(p, d[k].abs)

\* table[key] = value
Put(table, key, value) ==
    [k \in DOMAIN table \cup {key} |-> IF k = key THEN value ELSE table[k]]

\* the disk's entry of the file abs
entryOf(d, abs) ==
    d[CHOOSE k \in DOMAIN d : d[k].abs = abs]

\* index++ leaves index one higher
nextIndexStuck(i) ==
    i

nextIndex(i) ==
    i + 1

\* the value of index after n workers took one each
RECURSIVE indexAfter(_)
indexAfter(n) ==
    IF n = 0 THEN 0 ELSE nextIndex(indexAfter(n - 1))

\* Promise.all settles once one worker has returned
allSettledAny(wpc) ==
    \E w \in DOMAIN wpc : wpc[w] = "done"

\* Promise.all settles once every worker has returned
allSettled(wpc) ==
    \A w \in DOMAIN wpc : wpc[w] = "done"

\* node.type === "ImportDeclaration" && node.source?.value: the import
\* declarations the walk acts on, those whose source is not the empty string
importsOf(imports) ==
    LET HasSource(i) == i.source # <<>>
    IN  SelectSeq(imports, HasSource)

\* the ImportDeclaration nodes of a parsed file, as pendingResolutions items
itemsOf(abs, relPath, imports) ==
    [k \in DOMAIN importsOf(imports) |->
        [fromAbs |-> abs, fromRel |-> relPath,
         spec |-> importsOf(imports)[k].source]]

\* nodes.add(x): a Set keeps the order of first insertion
addNode(seq, x) ==
    IF \E k \in DOMAIN seq : seq[k] = x THEN seq ELSE Append(seq, x)

RECURSIVE addNodes(_, _)
addNodes(seq, xs) ==
    IF xs = <<>> THEN seq
    ELSE addNodes(addNode(seq, Head(xs)), Tail(xs))

\* what oxc.parseSync returns for the file, nothing when readFile or
\* parseSync threw
parseOf(entry) ==
    IF entry.readable THEN entry.parse ELSE <<>>

TextLimit ==
    2000

\* "\n/* ...truncated... */"
TruncationMark ==
    <<"\n", "/", "*", " ", ".", ".", ".", "t", "r", "u", "n", "c", "a", "t", "e", "d", ".", ".", ".", " ", "*", "/">>

\* text.length of a definition whose node spans length characters: a text
\* of more than 2000 is cut to 2000 and gets the mark
textLengthOf(length) ==
    IF length > TextLimit THEN TextLimit + Len(TruncationMark) ELSE length

\* collectDef / defFromSpecifier: the definitions the walk finds, with the
\* file's relative path
collectDefs(relPath, found) ==
    [k \in DOMAIN found |->
        [filePath |-> relPath, name |-> found[k].name,
         kind |-> found[k].kind, exported |-> found[k].exported,
         textLength |-> textLengthOf(found[k].textLength)]]

\* meta.exports: name and kind of the exported definitions
exportsOf(defs) ==
    LET IsExported(d) == d.exported
        exported == SelectSeq(defs, IsExported)
    IN  [k \in DOMAIN exported |->
            [name |-> exported[k].name, kind |-> exported[k].kind]]

DefOverhead ==
    50

\* limitDefs(defs, charBudget)
RECURSIVE limitDefsFrom(_, _, _, _)
limitDefsFrom(defs, charBudget, used, out) ==
    IF defs = <<>> THEN out
    ELSE LET d == Head(defs)
             cost == d.textLength + Len(d.name) + DefOverhead
         IN  IF used + cost > charBudget THEN out
             ELSE limitDefsFrom(Tail(defs), charBudget, used + cost,
                                Append(out, d))

limitDefs(defs, charBudget) ==
    limitDefsFrom(defs, charBudget, 0, <<>>)

RelevantCharBudget ==
    8000

HotspotLimit ==
    10

SegConstructor ==
    <<"c", "o", "n", "s", "t", "r", "u", "c", "t", "o", "r">>

SegProto ==
    <<"_", "_", "p", "r", "o", "t", "o", "_", "_">>

\* the names of the functions every object literal inherits from
\* Object.prototype
PrototypeFunctions ==
    {SegConstructor,
     <<"h", "a", "s", "O", "w", "n", "P", "r", "o", "p", "e", "r", "t", "y">>,
     <<"i", "s", "P", "r", "o", "t", "o", "t", "y", "p", "e", "O", "f">>,
     <<"p", "r", "o", "p", "e", "r", "t", "y", "I", "s", "E", "n", "u", "m", "e", "r", "a", "b", "l", "e">>,
     <<"t", "o", "S", "t", "r", "i", "n", "g">>,
     <<"v", "a", "l", "u", "e", "O", "f">>,
     <<"t", "o", "L", "o", "c", "a", "l", "e", "S", "t", "r", "i", "n", "g">>,
     <<"_", "_", "d", "e", "f", "i", "n", "e", "G", "e", "t", "t", "e", "r", "_", "_">>,
     <<"_", "_", "d", "e", "f", "i", "n", "e", "S", "e", "t", "t", "e", "r", "_", "_">>,
     <<"_", "_", "l", "o", "o", "k", "u", "p", "G", "e", "t", "t", "e", "r", "_", "_">>,
     <<"_", "_", "l", "o", "o", "k", "u", "p", "S", "e", "t", "t", "e", "r", "_", "_">>}

\* the relative paths that name a property of Object.prototype: the
\* functions, and __proto__, which is Object.prototype itself
PrototypeKeys ==
    {<<name>> : name \in PrototypeFunctions \cup {SegProto}}

\* definitions[n] ?? []: the file's own list; else what the property lookup
\* finds on the prototype, a function or Object.prototype, which is no
\* array; else the empty array
defsOfFile(table, n) ==
    IF n \in DOMAIN table THEN [isArray |-> TRUE, items |-> table[n]]
    ELSE IF n \in PrototypeKeys THEN [isArray |-> FALSE, items |-> <<>>]
    ELSE [isArray |-> TRUE, items |-> <<>>]

RECURSIVE flatten(_)
flatten(seqs) ==
    IF seqs = <<>> THEN <<>> ELSE Head(seqs) \o flatten(Tail(seqs))

\* (definitions[n] ?? []).filter((d) => d.exported)
exportedDefs(defs) ==
    LET IsExported(d) == d.exported
    IN  SelectSeq(defs, IsExported)

\* the neighbours of file: the targets of its edges, then the sources of
\* the edges to it, each once
neighborsOf(edgeSeq, file) ==
    LET From(e) == e.from = file
        To(e) == e.to = file
        outgoing == SelectSeq(edgeSeq, From)
        incoming == SelectSeq(edgeSeq, To)
    IN  addNodes(<<>>, [k \in DOMAIN outgoing |-> outgoing[k].to]
                       \o [k \in DOMAIN incoming |-> incoming[k].from])

\* lines 181-186 throw a TypeError for file: what definitions[file] finds
\* cannot be spread, or what definitions[n] finds for a neighbour n has no
\* method filter
relevantDefsThrows(table, edgeSeq, file) ==
    \/ ~defsOfFile(table, file).isArray
    \/ \E k \in DOMAIN neighborsOf(edgeSeq, file) :
           ~defsOfFile(table, neighborsOf(edgeSeq, file)[k]).isArray

\* relevantDefinitions[file] of buildCodeGraph, when lines 181-186 do not
\* throw
relevantDefsOf(table, edgeSeq, file, charBudget) ==
    LET neighbors == neighborsOf(edgeSeq, file)
    IN  limitDefs(defsOfFile(table, file).items
                  \o flatten([k \in DOMAIN neighbors |->
                                 exportedDefs(defsOfFile(table,
                                                         neighbors[k]).items)]),
                  charBudget)

\* the loop of lines 172-188 throws: it does for one of the nodes that are
\* changed files
relevantDefinitionsThrows(table, nodeSeq, edgeSeq, changed) ==
    \E k \in DOMAIN nodeSeq :
        nodeSeq[k] \in changed /\ relevantDefsThrows(table, edgeSeq, nodeSeq[k])

\* relevantDefinitions when the loop does not throw: one entry per node
\* that is a changed file
relevantDefinitionsOf(table, nodeSeq, edgeSeq, changed) ==
    [file \in {nodeSeq[k] : k \in DOMAIN nodeSeq} \cap changed |->
        relevantDefsOf(table, edgeSeq, file, RelevantCharBudget)]

\* the degree table: the nodes at 0, then one more for either end of an edge
degreeOf(edgeSeq, n) ==
    Cardinality({k \in DOMAIN edgeSeq : edgeSeq[k].from = n})
    + Cardinality({k \in DOMAIN edgeSeq : edgeSeq[k].to = n})

\* 4294967294, the highest array index, by its digits
MaxArrayIndex ==
    <<"4", "2", "9", "4", "9", "6", "7", "2", "9", "4">>

\* the digit's value
digitOf(ch) ==
    (CHOOSE k \in DOMAIN Digits : Digits[k] = ch) - 1

\* of two numerals without leading zeros, a is the lower number
RECURSIVE numeralLess(_, _)
numeralLess(a, b) ==
    IF Len(a) # Len(b) THEN Len(a) < Len(b)
    ELSE IF a = <<>> THEN FALSE
    ELSE IF Head(a) # Head(b) THEN digitOf(Head(a)) < digitOf(Head(b))
    ELSE numeralLess(Tail(a), Tail(b))

\* the key is an array index: the path is one segment, the numeral
\* without leading zeros of a number up to 4294967294
isArrayIndex(key) ==
    /\ Len(key) = 1
    /\ key[1] # <<>>
    /\ \A k \in DOMAIN key[1] : key[1][k] \in Range(Digits)
    /\ (Len(key[1]) > 1 => key[1][1] # "0")
    /\ ~numeralLess(MaxArrayIndex, key[1])

\* the keys in ascending order of their numbers
RECURSIVE sortIndices(_)
sortIndices(keys) ==
    IF keys = {} THEN <<>>
    ELSE LET least == CHOOSE a \in keys :
                          \A b \in keys \ {a} : numeralLess(a[1], b[1])
         IN  <<least>> \o sortIndices(keys \ {least})

\* the keys Object.entries(degree) lists, in its order: the keys written
\* are the nodes and then the ends of the edges that are no node (an end
\* of an edge is a node or the path of a scanned file, which has an
\* extension); degree['__proto__'] = ... creates no key; the array indices
\* come first, in ascending order, then the other keys as they were
\* inserted
degreeKeys(nodeSeq, edgeSeq) ==
    LET written == addNodes(nodeSeq,
                            flatten([k \in DOMAIN edgeSeq |->
                                        <<edgeSeq[k].from, edgeSeq[k].to>>]))
        IsOther(key) == key # <<SegProto>> /\ ~isArrayIndex(key)
    IN  sortIndices({key \in Range(written) : isArrayIndex(key)})
        \o SelectSeq(written, IsOther)

\* .slice(0, 10)
topHotspots(sorted) ==
    sliceFirst(sorted, HotspotLimit)

\* Object.entries(degree).sort((a, b) => b[1] - a[1]).slice(0, 10).map(...):
\* the sort is stable, so keys of equal degree stay in the order of
\* Object.entries
hotspotsOf(nodeSeq, edgeSeq) ==
    LET keys == degreeKeys(nodeSeq, edgeSeq)
        deg(i) == degreeOf(edgeSeq, keys[i])
        before(i) == {j \in DOMAIN keys :
                         deg(j) > deg(i) \/ (deg(j) = deg(i) /\ j < i)}
        at(r) == CHOOSE i \in DOMAIN keys : Cardinality(before(i)) = r - 1
        sorted == [r \in DOMAIN keys |->
                      [file |-> keys[at(r)], degree |-> deg(at(r))]]
    IN  topHotspots(sorted)

\* buildCodeGraph up to the first await of every worker: the files are
\* discovered and each worker in turn takes an index and, if there is a
\* file for it, adds the node and starts reading; when discoverSourceFiles
\* rejects (line 28), so does buildCodeGraph, before it has made a node or
\* a worker
GraphStart ==
    /\ graphPc = "start"
    /\ IF discoverThrows(graphRepoDir, disk)
       THEN /\ graphPc' = "scan failed"
            /\ UNCHANGED <<graphFiles, concurrency, index, workerPc, workerI,
                           nodes, claimLog, edges, definitions, fileMeta>>
       ELSE /\ LET found == discoverSourceFiles(graphRepoDir, disk)
                   c == concurrencyOf(cpus)
                   took(w) == indexAfter(w - 1)
                   busy == {w \in 1..c : took(w) < Len(found)}
               IN  /\ graphFiles' = found
                   /\ concurrency' = c
                   /\ index' = indexAfter(c)
                   /\ workerPc' = [w \in 1..c |->
                                      IF w \in busy THEN "reading"
                                                    ELSE "done"]
                   /\ workerI' = [w \in 1..c |-> took(w)]
                   /\ nodes' = addNodes(<<>>,
                                        [w \in 1..Cardinality(busy) |->
                                            fileAbsToRel(graphRepoDir,
                                                         found[took(w) + 1])])
                   /\ claimLog' = [w \in 1..Cardinality(busy) |->
                                      <<w, took(w)>>]
            /\ edges' = <<>>
            /\ definitions' = <<>>
            /\ fileMeta' = <<>>
            /\ graphPc' = "workers"
    /\ UNCHANGED <<disk, graphParsed, graphRepoDir, graphEarlier, cpus,
                   pendingResolutions, fileExistsCache, resolveIndex,
                   candidateIndex, graphResult, writeLog>>
    /\ UNCHANGED outsideGraph

\* worker w is resumed after its readFile settled: it parses and records
\* the file unless reading or parsing threw, then takes the next index
WorkerResume(w) ==
    /\ w \in DOMAIN workerPc
    /\ workerPc[w] = "reading"
    /\ LET abs == graphFiles[workerI[w] + 1]
           relPath == fileAbsToRel(graphRepoDir, abs)
           result == parseOf(entryOf(disk, abs))
           recorded == result # <<>>
           ast == result[1]
           defs == collectDefs(relPath, ast.defs)
           i == index
           more == i < Len(graphFiles)
       IN  /\ IF recorded
              THEN /\ pendingResolutions' =
                          pendingResolutions
                          \o itemsOf(abs, relPath, ast.imports)
                   /\ definitions' = Put(definitions, relPath, defs)
                   /\ fileMeta' = Put(fileMeta, relPath,
                                      [imports |-> importsOf(ast.imports),
                                       exports |-> exportsOf(defs)])
                   /\ writeLog' = Append(writeLog, <<w, relPath>>)
              ELSE UNCHANGED <<pendingResolutions, definitions, fileMeta,
                               writeLog>>
           /\ index' = nextIndex(index)
           /\ workerI' = [workerI EXCEPT ![w] = i]
           /\ workerPc' = [workerPc EXCEPT
                              ![w] = IF more THEN "reading" ELSE "done"]
           /\ nodes' = IF more
                       THEN addNode(nodes,
                                    fileAbsToRel(graphRepoDir,
                                                 graphFiles[i + 1]))
                       ELSE nodes
           /\ claimLog' = IF more THEN Append(claimLog, <<w, i>>)
                          ELSE claimLog
    /\ UNCHANGED <<disk, graphParsed, graphRepoDir, graphEarlier, cpus,
                   graphFiles, concurrency, edges, fileExistsCache,
                   resolveIndex, candidateIndex, graphResult, graphPc>>
    /\ UNCHANGED outsideGraph

\* await Promise.all(...) returns and the loop over pendingResolutions starts
GraphFanIn ==
    /\ graphPc = "workers"
    /\ allSettled(workerPc)
    /\ graphPc' = "resolving"
    /\ resolveIndex' = 1
    /\ candidateIndex' = 1
    /\ UNCHANGED <<disk, graphParsed, graphRepoDir, graphEarlier, cpus,
                   graphFiles, concurrency, index, workerPc, workerI, nodes,
                   edges, definitions, fileMeta, pendingResolutions,
                   fileExistsCache, graphResult, claimLog, writeLog>>
    /\ UNCHANGED outsideGraph

\* resolveModule returns null for an external specifier
ResolveExternal ==
    /\ graphPc = "resolving"
    /\ resolveIndex <= Len(pendingResolutions)
    /\ ~isLocalSpec(pendingResolutions[resolveIndex].spec)
    /\ resolveIndex' = resolveIndex + 1
    /\ UNCHANGED <<disk, graphParsed, graphRepoDir, graphEarlier, cpus,
                   graphFiles, concurrency, index, workerPc, workerI, nodes,
                   edges, definitions, fileMeta, pendingResolutions,
                   fileExistsCache, candidateIndex, graphResult, graphPc,
                   claimLog, writeLog>>
    /\ UNCHANGED outsideGraph

\* one await fileExists(c) of resolveModule and what follows it: the next
\* candidate, or the end of the item with or without an edge
ResolveCandidate ==
    /\ graphPc = "resolving"
    /\ resolveIndex <= Len(pendingResolutions)
    /\ isLocalSpec(pendingResolutions[resolveIndex].spec)
    /\ LET item == pendingResolutions[resolveIndex]
           candidates == candidatesOf(item.fromAbs, item.spec)
           c == candidates[candidateIndex]
           hit == c \in DOMAIN fileExistsCache
           exists == IF hit THEN fileExistsCache[c]
                     ELSE statSucceeds(disk, c)
           toRel == fileAbsToRel(graphRepoDir, c)
           inside == ~relStartsWithDotDot(toRel)
       IN  /\ fileExistsCache' = IF hit THEN fileExistsCache
                                 ELSE Put(fileExistsCache, c, exists)
           /\ IF exists /\ inside
              THEN /\ nodes' = addNode(nodes, toRel)
                   /\ edges' = Append(edges, [from |-> item.fromRel,
                                              to |-> toRel,
                                              module |-> item.spec])
              ELSE UNCHANGED <<nodes, edges>>
           /\ IF exists \/ candidateIndex = Len(candidates)
              THEN /\ resolveIndex' = resolveIndex + 1
                   /\ candidateIndex' = 1
              ELSE /\ resolveIndex' = resolveIndex
                   /\ candidateIndex' = candidateIndex + 1
    /\ UNCHANGED <<disk, graphParsed, graphRepoDir, graphEarlier, cpus,
                   graphFiles, concurrency, index, workerPc, workerI,
                   definitions, fileMeta, pendingResolutions, graphResult,
                   graphPc, claimLog, writeLog>>
    /\ UNCHANGED outsideGraph

----------------------------------------------------------------------------
(* Inputs of buildCodeGraph                                                *)

MaxDiskFiles ==
    2

SegRepo ==
    <<"r", "e", "p", "o">>

SegOut ==
    <<"o", "u", "t">>

SegLib ==
    <<"l", "i", "b">>

GraphRepoDir ==
    <<SegRepo>>

\* the repositories buildCodeGraph is called for
Roots ==
    {GraphRepoDir, <<SegOut>>}

Import(source, names) ==
    [source |-> source, names |-> names]

\* a definition the walk finds: its name, kind, whether it is exported and
\* the number of characters its node spans in the file
Def(name, kind, exported, textLength) ==
    [name |-> name, kind |-> kind, exported |-> exported,
     textLength |-> textLength]

Ast(imports, defs) ==
    <<[imports |-> imports, defs |-> defs]>>

DiskFile(abs, readable, parse) ==
    [abs |-> abs, readable |-> readable, parse |-> parse]

\* a node of 2500 characters, which collectDef cuts
LongText ==
    2500

\* /repo/a.ts imports ./b and lodash
DiskA ==
    DiskFile(<<SegRepo, <<"a", ".", "t", "s">>>>, TRUE,
             Ast(<<Import(<<".", "/", "b">>, <<"bar">>),
                   Import(<<"l", "o", "d", "a", "s", "h">>, <<"default as _">>)>>,
                 <<Def(<<"f", "o", "o">>, "function", TRUE, LongText),
                   Def(<<"h", "e", "l", "p", "e", "r">>, "variable", FALSE, LongText)>>))

\* /repo/b.ts has one import declaration, whose source is the empty string
DiskB ==
    DiskFile(<<SegRepo, <<"b", ".", "t", "s">>>>, TRUE,
             Ast(<<Import(<<>>, <<>>)>>,
                 <<Def(<<"l", "o", "c", "a", "l">>, "variable", FALSE, 7),
                   Def(<<"b", "a", "r">>, "class", TRUE, LongText),
                   Def(<<"b", "a", "z">>, "type", TRUE, LongText),
                   Def(<<"q", "u", "x">>, "enum", TRUE, 1)>>))

\* /repo/dist/x.js is in a directory walkDir skips
DiskDist ==
    DiskFile(<<SegRepo, <<"d", "i", "s", "t">>, <<"x", ".", "j", "s">>>>, TRUE, Ast(<<>>, <<>>))

\* /repo/lib/d.ts imports ../a, the directory ../lib, ../../out/z and fs
DiskD ==
    DiskFile(<<SegRepo, SegLib, <<"d", ".", "t", "s">>>>, TRUE,
             Ast(<<Import(<<".", ".", "/", "a">>, <<"foo">>),
                   Import(<<".", ".", "/", "l", "i", "b">>, <<>>),
                   Import(<<".", ".", "/", ".", ".", "/", "o", "u", "t", "/", "z">>,
                          <<"* as z">>),
                   Import(<<"f", "s">>, <<"default as fs">>)>>,
                 <<Def(<<"d", "e", "e">>, "interface", TRUE, 30)>>))

\* /repo/lib/index.ts imports nothing
DiskIndex ==
    DiskFile(<<SegRepo, SegLib, <<"i", "n", "d", "e", "x", ".", "t", "s">>>>, TRUE,
             Ast(<<>>, <<Def(<<"l", "i", "b">>, "variable", TRUE, 0)>>))

\* /repo/p.js does not parse
DiskP ==
    DiskFile(<<SegRepo, <<"p", ".", "j", "s">>>>, TRUE, <<>>)

\* /repo/readme.md is no source file
DiskReadme ==
    DiskFile(<<SegRepo, <<"r", "e", "a", "d", "m", "e", ".", "m", "d">>>>, TRUE, <<>>)

\* /repo/u.tsx cannot be read; it imports ./a
DiskU ==
    DiskFile(<<SegRepo, <<"u", ".", "t", "s", "x">>>>, FALSE,
             Ast(<<Import(<<".", "/", "a">>, <<"foo">>)>>,
                 <<Def(<<"y", "o", "u">>, "function", TRUE, 12)>>))

\* /out/z.ts lies outside the repository
DiskOut ==
    DiskFile(<<SegOut, <<"z", ".", "t", "s">>>>, TRUE,
             Ast(<<>>, <<Def(<<"z", "e", "d">>, "function", TRUE, 5)>>))

\* /repo/constructor/k.ts imports the directory it lies in
DiskK ==
    DiskFile(<<SegRepo, SegConstructor, <<"k", ".", "t", "s">>>>, TRUE,
             Ast(<<Import(<<".", ".", "/", "c", "o", "n", "s", "t", "r", "u", "c", "t", "o", "r">>, <<>>)>>,
                 <<Def(<<"k", "e", "y">>, "variable", TRUE, 9)>>))

\* /repo/7/n.ts imports the directory it lies in
DiskN ==
    DiskFile(<<SegRepo, <<"7">>, <<"n", ".", "t", "s">>>>, TRUE,
             Ast(<<Import(<<".", ".", "/", "7">>, <<>>)>>, <<>>))

FilePool ==
    <<DiskA, DiskB, DiskDist, DiskD, DiskIndex, DiskP, DiskReadme, DiskU,
      DiskOut, DiskK, DiskN>>

\* the files of the pool at the positions S, in the pool's order
PickFiles(S) ==
    LET order == CHOOSE f \in [1..Cardinality(S) -> S] :
                     \A a, b \in 1..Cardinality(S) : a < b => f[a] < f[b]
    IN  [k \in 1..Cardinality(S) |-> FilePool[order[k]]]

Disks ==
    {PickFiles(S) : S \in {T \in SUBSET DOMAIN FilePool :
                               Cardinality(T) <= MaxDiskFiles}}

\* eleven files in /repo; the last one imports the first and the fourth,
\* the one before it the first
ManyNames ==
    <<<<"m", "0", ".", "t", "s">>, <<"m", "1", ".", "t", "s">>, <<"m", "2", ".", "t", "s">>, <<"m", "3", ".", "t", "s">>, <<"m", "4", ".", "t", "s">>, <<"m", "5", ".", "t", "s">>,
      <<"m", "6", ".", "t", "s">>, <<"m", "7", ".", "t", "s">>, <<"m", "8", ".", "t", "s">>, <<"m", "9", ".", "t", "s">>, <<"m", "x", ".", "t", "s">>>>

ManyFiles ==
    [k \in DOMAIN ManyNames |->
        DiskFile(<<SegRepo, ManyNames[k]>>, TRUE,
                 IF k = Len(ManyNames)
                 THEN Ast(<<Import(<<".", "/", "m", "0">>, <<>>), Import(<<".", "/", "m", "3">>, <<>>)>>,
                          <<>>)
                 ELSE IF k = Len(ManyNames) - 1
                 THEN Ast(<<Import(<<".", "/", "m", "0">>, <<>>)>>, <<>>)
                 ELSE Ast(<<>>, <<>>))]

\* os.cpus()?.length: one, three and sixteen processors (and 0, not
\* known, with the eleven files)
CpuChoices ==
    {1, 3, 16}

\* parsed.files.map((f) => f.path): the files the diff changes
ChangedFiles ==
    {<<<<"a", ".", "t", "s">>>>, <<<<"m", "x", ".", "t", "s">>>>,
     <<SegLib, <<"d", ".", "t", "s">>>>, <<<<"g", "o", "n", "e", ".", "t", "s">>>>,
     <<SegConstructor, <<"k", ".", "t", "s">>>>}

\* the loop over pendingResolutions is over: the hotspots and the relevant
\* definitions of the changed files are computed and all is returned,
\* unless the loop over the changed files throws and the promise of
\* buildCodeGraph rejects
GraphReturn ==
    /\ graphPc = "resolving"
    /\ resolveIndex > Len(pendingResolutions)
    /\ IF relevantDefinitionsThrows(definitions, nodes, edges, graphParsed)
       THEN /\ graphResult' = <<>>
            /\ graphPc' = "threw"
       ELSE /\ graphResult' =
                  <<[graph |-> [nodes |-> nodes, edges |-> edges],
                     definitions |-> definitions,
                     relevantDefinitions |->
                         relevantDefinitionsOf(definitions, nodes, edges,
                                               graphParsed),
                     summary |-> [hotspots |-> hotspotsOf(nodes, edges)],
                     fileMeta |-> fileMeta]>>
            /\ graphPc' = "done"
    /\ UNCHANGED <<disk, graphParsed, graphRepoDir, graphEarlier, cpus, graphFiles,
                   concurrency, index, workerPc, workerI, nodes, edges,
                   definitions, fileMeta, pendingResolutions,
                   fileExistsCache, resolveIndex, candidateIndex, claimLog,
                   writeLog>>
    /\ UNCHANGED outsideGraph

\* buildCodeGraph is called once more in the same process, after the first
\* call returned or rejected, on the same file system, for the same or for
\* another repository: the locals are new, pendingResolutions and
\* fileExistsCache are the module's.  result is what the first call
\* returned, if it did.
GraphSecondCall ==
    /\ graphPc \in {"done", "threw", "scan failed"}
    /\ graphEarlier = <<>>
    /\ graphEarlier' = <<[repoDir |-> graphRepoDir,
                          files |-> graphFiles,
                          result |-> graphResult]>>
    /\ graphRepoDir' \in Roots
    /\ graphFiles' = <<>>
    /\ concurrency' = 0
    /\ index' = 0
    /\ workerPc' = <<>>
    /\ workerI' = <<>>
    /\ nodes' = <<>>
    /\ edges' = <<>>
    /\ definitions' = <<>>
    /\ fileMeta' = <<>>
    /\ resolveIndex' = 0
    /\ candidateIndex' = 0
    /\ graphResult' = <<>>
    /\ graphPc' = "start"
    /\ claimLog' = <<>>
    /\ writeLog' = <<>>
    /\ UNCHANGED <<disk, graphParsed, cpus, pendingResolutions,
                   fileExistsCache>>
    /\ UNCHANGED outsideGraph

----------------------------------------------------------------------------
(* Initial states of buildCodeGraph                                        *)

InitGraph ==
    /\ \/ /\ disk \in Disks
          /\ cpus \in CpuChoices
       \/ /\ disk = ManyFiles
          /\ cpus = 0
    /\ pendingResolutions = <<>>
    /\ fileExistsCache = <<>>
    /\ graphParsed = ChangedFiles
    /\ graphRepoDir = GraphRepoDir
    /\ graphEarlier = <<>>
    /\ graphFiles = <<>>
    /\ concurrency = 0
    /\ index = 0
    /\ workerPc = <<>>
    /\ workerI = <<>>
    /\ nodes = <<>>
    /\ edges = <<>>
    /\ definitions = <<>>
    /\ fileMeta = <<>>
    /\ resolveIndex = 0
    /\ candidateIndex = 0
    /\ graphResult = <<>>
    /\ graphPc = "start"
    /\ claimLog = <<>>
    /\ writeLog = <<>>
    /\ OutsideGraphIdle

NextGraph ==
    \/ GraphStart
    \/ \E w \in 1..MaxConcurrency : WorkerResume(w)
    \/ GraphFanIn
    \/ ResolveExternal
    \/ ResolveCandidate
    \/ GraphReturn
    \/ GraphSecondCall

SpecGraph ==
    InitGraph /\ [][NextGraph]_vars

----------------------------------------------------------------------------
(* Claims about buildCodeGraph                                             *)

\* the workers of the call have all returned
WorkersFinished ==
    \A w \in DOMAIN workerPc : workerPc[w] = "done"

\* the indices the workers took that have a file
ClaimedIndices ==
    {claimLog[k][2] : k \in DOMAIN claimLog}

\* C19: whatever the number of workers and the order in which their reads
\* settle, no file index is taken twice and every index taken lies in
\* [0, files.length); no key of the definitions and fileMeta tables is
\* written twice, so no two workers write the same key; a worker has
\* stopped exactly when the index it took was files.length or more; and
\* once the workers are through, every index below files.length was taken
\* and the tables hold exactly the files that were read and parsed.
C19_EachIndexOnce ==
    graphPc \in {"workers", "resolving", "done", "threw"} =>
        /\ DOMAIN workerPc = 1..concurrency
        /\ concurrency \in MinConcurrency..MaxConcurrency
        /\ \A a, b \in DOMAIN claimLog :
               a # b => claimLog[a][2] # claimLog[b][2]
        /\ ClaimedIndices \subseteq 0..(Len(graphFiles) - 1)
        /\ \A a, b \in DOMAIN writeLog :
               a # b => writeLog[a][2] # writeLog[b][2]
        /\ DOMAIN definitions = {writeLog[k][2] : k \in DOMAIN writeLog}
        /\ DOMAIN fileMeta = DOMAIN definitions
        /\ \A w \in DOMAIN workerPc :
               workerPc[w] = "done" <=> workerI[w] >= Len(graphFiles)
        /\ WorkersFinished =>
               /\ ClaimedIndices = 0..(Len(graphFiles) - 1)
               /\ index >= Len(graphFiles)
               /\ DOMAIN definitions =
                      {fileAbsToRel(graphRepoDir, disk[k].abs) :
                          k \in {x \in DOMAIN disk :
                                    /\ \E y \in DOMAIN graphFiles :
                                           graphFiles[y] = disk[x].abs
                                    /\ disk[x].readable
                                    /\ disk[x].parse # <<>>}}

\* two workers share eleven files that all parse: a worker takes several
C19_Witness ==
    /\ graphPc = "done"
    /\ concurrency = MinConcurrency
    /\ Len(graphFiles) > concurrency
    /\ Len(writeLog) = Len(graphFiles)
    /\ \E a, b \in DOMAIN writeLog :
           a < b /\ writeLog[a][1] # writeLog[b][1]
    /\ \E a, b \in DOMAIN claimLog :
           a # b /\ claimLog[a][1] = claimLog[b][1]

\* the resolution pass is under way or over
Resolving ==
    graphPc \in {"resolving", "done", "threw"}

\* a step of the resolution pass: an edge added, the cache written, or the
\* loop over the items or over the candidates advanced (every cache read
\* advances one of the two)
C20_ResolutionStep ==
    /\ graphPc' # "start"
    /\ \/ edges' # edges
       \/ fileExistsCache' # fileExistsCache
       \/ resolveIndex' # resolveIndex
       \/ candidateIndex' # candidateIndex

C20_StepAfterWorkers ==
    C20_ResolutionStep =>
        /\ WorkersFinished
        /\ resolveIndex' \in {resolveIndex, resolveIndex + 1}
        /\ UNCHANGED <<workerPc, workerI, index, definitions, fileMeta,
                       pendingResolutions>>

\* the edges stem from the pending items, in the items' order
RECURSIVE EdgesAmongItems(_, _)
EdgesAmongItems(edgeSeq, items) ==
    IF edgeSeq = <<>> THEN TRUE
    ELSE IF items = <<>> THEN FALSE
    ELSE IF /\ Head(edgeSeq).from = Head(items).fromRel
            /\ Head(edgeSeq).module = Head(items).spec
    THEN EdgesAmongItems(Tail(edgeSeq), Tail(items))
    ELSE EdgesAmongItems(edgeSeq, Tail(items))

EdgesInItemOrder ==
    EdgesAmongItems(edges, pendingResolutions)

C20_AfterWorkers ==
    /\ Resolving => WorkersFinished
    /\ ~Resolving => edges = <<>>
    /\ graphPc \in {"done", "threw"} =>
           /\ resolveIndex = Len(pendingResolutions) + 1
           /\ EdgesInItemOrder

\* C20: within one call of buildCodeGraph no edge is added, the file
\* existence cache is neither read nor written and no item is resolved
\* while a worker of the call is still running; the items are resolved one
\* after the other in one pass over pendingResolutions, in its order.
C20_ResolutionDeferred ==
    []C20_AfterWorkers /\ [][C20_StepAfterWorkers]_vars

\* files parsed by different workers, then a pass that added edges, wrote
\* the cache and also found an answer in it
C20_Witness ==
    /\ graphPc = "done"
    /\ Len(edges) >= 2
    /\ \E a, b \in DOMAIN writeLog : writeLog[a][1] # writeLog[b][1]
    /\ \E a, b \in DOMAIN edges : edges[a].from # edges[b].from
    /\ \E p \in DOMAIN fileExistsCache : fileExistsCache[p]
    /\ \E p \in DOMAIN fileExistsCache : ~fileExistsCache[p]


\* a call of buildCodeGraph has returned
GraphReturned ==
    graphPc = "done"

\* the call that has returned is the second one, for the same repository
SecondCallSameRoot ==
    /\ GraphReturned
    /\ graphEarlier # <<>>
    /\ graphEarlier[1].repoDir = graphRepoDir

\* the edges of a sequence, each once
EdgeSet(edgeSeq) ==
    {edgeSeq[k] : k \in DOMAIN edgeSeq}

\* C21: a second call of buildCodeGraph in the same process, for the same
\* repository on the unchanged file system, returns the nodes, the edges
\* (none added, none repeated), hence the hotspots, and the definition
\* lists per file that the first call returned.
C21_SecondCallSame ==
    SecondCallSameRoot =>
        LET first == graphEarlier[1].result[1]
            second == graphResult[1]
        IN  /\ second.graph.nodes = first.graph.nodes
            /\ EdgeSet(second.graph.edges) = EdgeSet(first.graph.edges)
            /\ Len(second.graph.edges) = Len(first.graph.edges)
            /\ second.summary.hotspots = first.summary.hotspots
            /\ second.definitions = first.definitions


\* the call that has returned is the second one, for another repository
SecondCallOtherRoot ==
    /\ GraphReturned
    /\ graphEarlier # <<>>
    /\ graphEarlier[1].repoDir # graphRepoDir

\* the file with relative path relPath was scanned and parsed by the call
\* under way and holds an import declaration of the specifier
ImportsHere(relPath, specifier) ==
    \E k \in DOMAIN graphFiles :
        /\ fileAbsToRel(graphRepoDir, graphFiles[k]) = relPath
        /\ LET result == parseOf(entryOf(disk, graphFiles[k]))
           IN  /\ result # <<>>
               /\ \E j \in DOMAIN result[1].imports :
                      result[1].imports[j].source = specifier

\* C22: of two calls of buildCodeGraph for different repositories, the
\* later one returns only edges that stem from import declarations in the
\* files it scanned itself, and only nodes that are files it scanned or
\* targets of such edges.
C22_CallsIsolated ==
    SecondCallOtherRoot =>
        /\ \A k \in DOMAIN edges : ImportsHere(edges[k].from, edges[k].module)
        /\ \A k \in DOMAIN nodes :
               \/ \E j \in DOMAIN graphFiles :
                      fileAbsToRel(graphRepoDir, graphFiles[j]) = nodes[k]
               \/ \E j \in DOMAIN edges :
                      /\ edges[j].to = nodes[k]
                      /\ ImportsHere(edges[j].from, edges[j].module)


\* the relative path names something in the repository: following it from
\* the root never leaves the root
InsideRoot(relPath) ==
    \A k \in DOMAIN relPath : relPath[k] # DotDot

\* the first character of a specifier, if any
FirstCharIn(specifier, chars) ==
    specifier # <<>> /\ specifier[1] \in chars

\* the relative paths of the files the call under way has scanned
ScannedHere ==
    {fileAbsToRel(graphRepoDir, graphFiles[k]) : k \in DOMAIN graphFiles}

\* C23: in every call, at every moment, each edge leads to a path inside
\* the repository root and belongs to a specifier that starts with "." or
\* "/"; every node is a scanned file or the target of such an edge, so a
\* package-style specifier adds neither an edge nor a node.
C23_EdgesInsideRoot ==
    /\ \A k \in DOMAIN edges :
           /\ InsideRoot(edges[k].to)
           /\ FirstCharIn(edges[k].module, {".", "/"})
    /\ \A k \in DOMAIN nodes :
           \/ nodes[k] \in ScannedHere
           \/ \E j \in DOMAIN edges : edges[j].to = nodes[k]
    /\ GraphReturned =>
           /\ graphResult[1].graph.edges = edges
           /\ graphResult[1].graph.nodes = nodes

\* a call has returned an edge although the files it scanned import a
\* package and a file outside the repository as well
C23_Witness ==
    /\ GraphReturned
    /\ edges # <<>>
    /\ \E k \in DOMAIN pendingResolutions :
           ~FirstCharIn(pendingResolutions[k].spec, {".", "/"})
    /\ \E k \in DOMAIN pendingResolutions :
       \E c \in DOMAIN fileExistsCache :
           /\ fileExistsCache[c]
           /\ c \in Range(candidatesOf(pendingResolutions[k].fromAbs,
                                       pendingResolutions[k].spec))
           /\ ~InsideRoot(fileAbsToRel(graphRepoDir, c))


\* p is a file on the disk (not a directory)
IsFileOnDisk(p) ==
    \E k \in DOMAIN disk : disk[k].abs = p

\* the edges the items yield when each relative specifier leads to the
\* first candidate that is a file on the disk
RECURSIVE EdgesToFirstFile(_)
EdgesToFirstFile(items) ==
    IF items = <<>> THEN <<>>
    ELSE LET item == Head(items)
             candidates == candidatesOf(item.fromAbs, item.spec)
             files == {k \in DOMAIN candidates : IsFileOnDisk(candidates[k])}
             first == CHOOSE k \in files : \A j \in files : k <= j
             toRel == fileAbsToRel(graphRepoDir, candidates[first])
         IN  (IF /\ FirstCharIn(item.spec, {".", "/"})
                 /\ files # {}
                 /\ InsideRoot(toRel)
              THEN <<[from |-> item.fromRel, to |-> toRel,
                      module |-> item.spec]>>
              ELSE <<>>)
             \o EdgesToFirstFile(Tail(items))

\* the first call in the process has returned
FirstCallReturned ==
    GraphReturned /\ graphEarlier = <<>>

\* C24: the edges of a call are those of its import declarations whose
\* specifier is relative and has a candidate that is a file on the disk,
\* each leading to the first such candidate in the order base, base.ts,
\* base.tsx, base.js, base.jsx, base/index.ts, ..., base/index.jsx; a
\* directory is never an edge target.
C24_FirstExistingFile ==
    FirstCallReturned =>
        /\ edges = EdgesToFirstFile(pendingResolutions)
        /\ \A k \in DOMAIN edges :
               IsFileOnDisk(graphRepoDir \o edges[k].to)


\* the steps of a call
GraphCallStep ==
    \/ GraphStart
    \/ \E w \in 1..MaxConcurrency : WorkerResume(w)
    \/ GraphFanIn
    \/ ResolveExternal
    \/ ResolveCandidate
    \/ GraphReturn

\* how far a call is from returning: its phase, and within the phase the
\* reads and files still to come, or the probes still to come
GraphPhase ==
    CASE graphPc = "start" -> 3
      [] graphPc = "workers" -> 2
      [] graphPc = "resolving" -> 1
      [] OTHER -> 0

GraphWork ==
    CASE graphPc = "workers" ->
             Cardinality({w \in DOMAIN workerPc : workerPc[w] = "reading"})
             + MaxOf(0, Len(graphFiles) - index)
      [] graphPc = "resolving" ->
             (Len(pendingResolutions) + 2 - resolveIndex)
                 * (2 + 2 * Len(CandidateExtensions))
             - candidateIndex
      [] OTHER -> 0

\* every step of a call brings it nearer to its end
GraphStepAdvances ==
    GraphCallStep =>
        \/ GraphPhase' < GraphPhase
        \/ GraphPhase' = GraphPhase /\ GraphWork' < GraphWork /\ GraphWork' >= 0

\* the edges the items yield when each relative specifier leads to the
\* first candidate for which stat succeeds
RECURSIVE EdgesToFirstEntry(_)
EdgesToFirstEntry(items) ==
    IF items = <<>> THEN <<>>
    ELSE LET item == Head(items)
             candidates == candidatesOf(item.fromAbs, item.spec)
             found == {k \in DOMAIN candidates :
                          statSucceeds(disk, candidates[k])}
             first == CHOOSE k \in found : \A j \in found : k <= j
             toRel == fileAbsToRel(graphRepoDir, candidates[first])
         IN  (IF /\ FirstCharIn(item.spec, {".", "/"})
                 /\ found # {}
                 /\ InsideRoot(toRel)
              THEN <<[from |-> item.fromRel, to |-> toRel,
                      module |-> item.spec]>>
              ELSE <<>>)
             \o EdgesToFirstEntry(Tail(items))

\* the scanned files whose read or parse throws, and the others
FailingHere ==
    {k \in DOMAIN graphFiles :
        ~entryOf(disk, graphFiles[k]).readable
        \/ entryOf(disk, graphFiles[k]).parse = <<>>}

\* the edges that start at the file
EdgesFrom(relPath) ==
    LET From(e) == e.from = relPath
    IN  SelectSeq(edges, From)

\* what the call holds for the files that parse is what each of them alone
\* determines: its own definitions and imports, and the edges of its own
\* imports on this disk
OthersUntouched ==
    \A k \in DOMAIN graphFiles \ FailingHere :
        LET abs == graphFiles[k]
            relPath == fileAbsToRel(graphRepoDir, abs)
            ast == entryOf(disk, abs).parse[1]
        IN  /\ relPath \in DOMAIN definitions
            /\ relPath \in DOMAIN fileMeta
            /\ Len(definitions[relPath]) = Len(ast.defs)
            /\ \A j \in DOMAIN ast.defs :
                   /\ definitions[relPath][j].name = ast.defs[j].name
                   /\ definitions[relPath][j].exported = ast.defs[j].exported
                   /\ definitions[relPath][j].filePath = relPath
            /\ fileMeta[relPath].imports = importsOf(ast.imports)
            /\ EdgesFrom(relPath)
                   = EdgesToFirstEntry(itemsOf(abs, relPath, ast.imports))

C25_FailingFileSkipped ==
    FirstCallReturned =>
        /\ \A k \in FailingHere :
               LET relPath == fileAbsToRel(graphRepoDir, graphFiles[k])
               IN  /\ relPath \notin DOMAIN definitions
                   /\ relPath \notin DOMAIN fileMeta
                   /\ EdgesFrom(relPath) = <<>>
        /\ OthersUntouched

\* the call under way found its files and has ended: it returned or it
\* threw
GraphEnded ==
    graphPc \in {"done", "threw"}

\* a call that scanned a file it could not read or parse does not throw
C25_BuildCompletes ==
    graphPc = "threw" => FailingHere = {}

\* C25: a file that cannot be read or does not parse never aborts
\* buildCodeGraph: every step brings the call nearer to its end and the
\* call does not end in a throw; the failing file has no definitions, no
\* metadata and no outgoing edge, and the definitions, metadata and edges
\* of every other file are those its own contents determine, as they
\* would be if the failing file were an empty module.
C25_FailuresAreSoft ==
    /\ []C25_FailingFileSkipped
    /\ []C25_BuildCompletes
    /\ [][GraphStepAdvances]_vars

\* the part of C25 about the call that returns, and the progress of every
\* call
FailuresSkippedWhenReturned ==
    []C25_FailingFileSkipped /\ [][GraphStepAdvances]_vars

\* a call has returned with a file that could not be read or parsed next
\* to a file with definitions and an edge
FailingFileReturned ==
    /\ FirstCallReturned
    /\ FailingHere # {}
    /\ edges # <<>>
    /\ \E k \in DOMAIN graphFiles \ FailingHere :
           definitions[fileAbsToRel(graphRepoDir, graphFiles[k])] # <<>>


\* the number of edges of the returned graph that start or end at n
ReturnedDegree(n) ==
    LET es == graphResult[1].graph.edges
    IN  Cardinality({k \in DOMAIN es : es[k].from = n})
        + Cardinality({k \in DOMAIN es : es[k].to = n})

\* the position of n among the returned nodes
NodePosition(n) ==
    LET ns == graphResult[1].graph.nodes
    IN  CHOOSE k \in DOMAIN ns : ns[k] = n

\* C26: the hotspots a call returns are at most 10 different nodes of the
\* returned graph, as many as there are nodes up to 10; each comes with
\* the number of edges it is the source of plus the number it is the
\* target of; the degrees do not increase along the list, nodes of equal
\* degree stand in node insertion order, and no node left out has a
\* higher degree than a listed one.
C26_Hotspots ==
    GraphReturned =>
        LET h == graphResult[1].summary.hotspots
            ns == graphResult[1].graph.nodes
            listed == {h[k].file : k \in DOMAIN h}
        IN  /\ Len(h) = MinOf(HotspotLimit, Len(ns))
            /\ \A k \in DOMAIN h :
                   /\ \E j \in DOMAIN ns : ns[j] = h[k].file
                   /\ h[k].degree = ReturnedDegree(h[k].file)
            /\ \A a, b \in DOMAIN h :
                   a < b =>
                       /\ h[a].file # h[b].file
                       /\ h[a].degree >= h[b].degree
                       /\ h[a].degree = h[b].degree =>
                              NodePosition(h[a].file) < NodePosition(h[b].file)
            /\ \A j \in DOMAIN ns :
                   ns[j] \notin listed =>
                       \A k \in DOMAIN h : ReturnedDegree(ns[j]) <= h[k].degree


\* what limitDefs charges for the definitions of a list
RECURSIVE CostOf(_)
CostOf(defs) ==
    IF defs = <<>> THEN 0
    ELSE Head(defs).textLength + Len(Head(defs).name) + DefOverhead
         + CostOf(Tail(defs))

\* the files joined to file by an edge of the returned graph, either way
ConnectedTo(file) ==
    LET es == graphResult[1].graph.edges
    IN  {es[k].to : k \in {j \in DOMAIN es : es[j].from = file}}
        \cup {es[k].from : k \in {j \in DOMAIN es : es[j].to = file}}

\* the file's own definitions, then the exported ones of its neighbours
CandidateDefs(file) ==
    LET table == graphResult[1].definitions
        neighbors == neighborsOf(graphResult[1].graph.edges, file)
        Exported(d) == d.exported
    IN  defsOfFile(table, file).items
        \o flatten([k \in DOMAIN neighbors |->
                       SelectSeq(defsOfFile(table, neighbors[k]).items,
                                 Exported)])

\* the bundles of the result are as C27 describes them
BundlesAsClaimed ==
    LET bundles == graphResult[1].relevantDefinitions
        ns == graphResult[1].graph.nodes
        own(file) == defsOfFile(graphResult[1].definitions, file).items
    IN  /\ DOMAIN bundles = {ns[k] : k \in DOMAIN ns} \cap graphParsed
        /\ \A file \in DOMAIN bundles :
               LET bundle == bundles[file]
                   all == CandidateDefs(file)
               IN  /\ Len(bundle) <= Len(all)
                   /\ bundle = SubSeq(all, 1, Len(bundle))
                   /\ CostOf(bundle) <= RelevantCharBudget
                   /\ Len(bundle) < Len(all) =>
                          CostOf(SubSeq(all, 1, Len(bundle) + 1))
                              > RelevantCharBudget
                   /\ \A k \in DOMAIN bundle :
                          k > Len(own(file)) =>
                              /\ bundle[k].exported
                              /\ bundle[k].filePath \in ConnectedTo(file)
                   /\ \A k \in DOMAIN bundle :
                          k <= Len(own(file)) => bundle[k] = own(file)[k]

\* C27: a call that found its files and has ended has a result, with a
\* bundle for exactly the changed files among its nodes; the bundle is a prefix of the file's own
\* definitions followed by the exported definitions of the files an edge
\* joins it to; the prefix costs at most the budget of 8000 (text length +
\* name length + 50 each) and ends only at the end of the list or before
\* the first definition that would exceed the budget; beyond the file's
\* own definitions it holds exported definitions of connected files only.
C27_RelevantDefinitions ==
    GraphEnded => graphResult # <<>> /\ BundlesAsClaimed

\* the bundles of every call that returns
BundlesWhenReturned ==
    GraphReturned => BundlesAsClaimed

\* a changed file has a neighbour with exported and other definitions; its
\* bundle holds its own definitions and one of the neighbour's and stops
\* short of the next, which would exceed the budget
BundleCutShort ==
    /\ GraphReturned
    /\ \E file \in DOMAIN graphResult[1].relevantDefinitions :
           LET bundle == graphResult[1].relevantDefinitions[file]
               own == defsOfFile(graphResult[1].definitions, file).items
           IN  /\ own # <<>>
               /\ Len(bundle) > Len(own)
               /\ Len(bundle) < Len(CandidateDefs(file))
               /\ \E n \in ConnectedTo(file) :
                  \E k \in DOMAIN defsOfFile(graphResult[1].definitions, n).items :
                      ~defsOfFile(graphResult[1].definitions, n).items[k].exported


\* how many import declarations of the specifier the call under way found
\* in the file with that relative path
RECURSIVE CountSource(_, _)
CountSource(imports, specifier) ==
    IF imports = <<>> THEN 0
    ELSE (IF Head(imports).source = specifier THEN 1 ELSE 0)
         + CountSource(Tail(imports), specifier)

DeclarationsHere(relPath, specifier) ==
    LET here == {k \in DOMAIN graphFiles :
                    fileAbsToRel(graphRepoDir, graphFiles[k]) = relPath}
    IN  IF here = {} THEN 0
        ELSE LET result == parseOf(entryOf(disk, graphFiles[CHOOSE k \in here : TRUE]))
             IN  IF result = <<>> THEN 0
                 ELSE CountSource(result[1].imports, specifier)

\* C29: in the result of every call, first or later, each edge has its
\* from and its to among the nodes of the same graph, and a file has as
\* many edges for a module specifier as the call found import declarations
\* of that specifier in the file.
C29_EdgesMatchImports ==
    GraphReturned =>
        LET g == graphResult[1].graph
            nodeSet == {g.nodes[k] : k \in DOMAIN g.nodes}
            Same(e) == {j \in DOMAIN g.edges :
                           /\ g.edges[j].from = e.from
                           /\ g.edges[j].module = e.module}
        IN  \A k \in DOMAIN g.edges :
                /\ g.edges[k].from \in nodeSet
                /\ g.edges[k].to \in nodeSet
                /\ Cardinality(Same(g.edges[k]))
                       = DeclarationsHere(g.edges[k].from, g.edges[k].module)


----------------------------------------------------------------------------
(* Part 5: the request queue of LlmClient and RagClient.                   *)
(*                                                                         *)
(* Both clients hold a PQueue and pass chat() and query() through          *)
(* queue.add().  The queue is the p-queue package: add() enqueues by       *)
(* priority and starts the head of the queue if the queue is not paused    *)
(* and the concurrency and the interval cap allow it; a settled request    *)
(* starts the next one under the same conditions; the interval timer       *)
(* resets the interval count and starts what fits; pause() sets isPaused   *)
(* and only the queue's own start() resets it.                             *)

LlmDefaultConcurrency ==
    3

LlmDefaultIntervalCap ==
    10

RagDefaultConcurrency ==
    5

RagDefaultIntervalCap ==
    20

DefaultPriority ==
    0

\* cfg.concurrency ?? 3 in LlmClient, cfg.concurrency ?? 5 in RagClient
concurrencyOption(client, cfg) ==
    IF IsDefined(cfg.concurrency) THEN cfg.concurrency[1]
    ELSE IF client = "llm" THEN LlmDefaultConcurrency
    ELSE RagDefaultConcurrency

\* cfg.intervalCap ?? 10 in LlmClient, cfg.intervalCap ?? 20 in RagClient
intervalCapOption(client, cfg) ==
    IF IsDefined(cfg.intervalCap) THEN cfg.intervalCap[1]
    ELSE IF client = "llm" THEN LlmDefaultIntervalCap
    ELSE RagDefaultIntervalCap

\* priority: args.priority ?? 0
priorityOf(args) ==
    IF IsDefined(args.priority) THEN args.priority[1] ELSE DefaultPriority

\* the queue's enqueue: behind every item of the same or a higher priority
enqueue(waiting, item) ==
    LET lower == {k \in DOMAIN waiting : waiting[k].priority < item.priority}
        at == IF lower = {} THEN Len(waiting) + 1
              ELSE CHOOSE k \in lower : \A j \in lower : k <= j
    IN  SubSeq(waiting, 1, at - 1) \o <<item>>
            \o SubSeq(waiting, at, Len(waiting))

\* how many waiting requests the queue may start now, at most limit of them
startable(waiting, running, count, paused, limit) ==
    IF paused THEN 0
    ELSE MinOf(limit,
               MinOf(Len(waiting),
                     MinOf(queueConcurrency - Cardinality(running),
                           queueIntervalCap - count)))

\* the queue with its first n waiting requests started
started(waiting, running, count, n) ==
    [waiting |-> SubSeq(waiting, n + 1, Len(waiting)),
     running |-> running \cup {waiting[k].id : k \in 1..n},
     count |-> count + n]

\* resume(): a console.log; the queue's isPaused stays as it is
resume(paused) ==
    paused

MaxRequests ==
    3

\* chat(args) or query(args): queue.add(fn, {priority, id})
QueueAdd(args) ==
    /\ queueClient # ""
    /\ queueNextId < MaxRequests
    /\ LET id == queueNextId + 1
           waiting == enqueue(queueWaiting,
                              [id |-> id, priority |-> priorityOf(args)])
           n == startable(waiting, queueRunning, queueIntervalCount,
                          queuePaused, 1)
           after == started(waiting, queueRunning, queueIntervalCount, n)
       IN  /\ queueNextId' = id
           /\ queueWaiting' = after.waiting
           /\ queueRunning' = after.running
           /\ queueIntervalCount' = after.count
    /\ UNCHANGED <<queueClient, queueConcurrency, queueIntervalCap,
                   queuePaused, queueSettled, queueResumed>>
    /\ UNCHANGED outsideQueue

\* the function of a running request returns, throws or times out; the
\* queue starts the next request if it may
QueueSettle(id) ==
    /\ id \in queueRunning
    /\ LET running == queueRunning \ {id}
           n == startable(queueWaiting, running, queueIntervalCount,
                          queuePaused, 1)
           after == started(queueWaiting, running, queueIntervalCount, n)
       IN  /\ queueWaiting' = after.waiting
           /\ queueRunning' = after.running
           /\ queueIntervalCount' = after.count
    /\ queueSettled' = queueSettled \cup {id}
    /\ UNCHANGED <<queueClient, queueConcurrency, queueIntervalCap,
                   queuePaused, queueNextId, queueResumed>>
    /\ UNCHANGED outsideQueue

\* the interval timer fires: the count starts anew and the queue starts
\* every request that fits
QueueInterval ==
    /\ queueIntervalCount > 0
    /\ LET n == startable(queueWaiting, queueRunning, 0, queuePaused,
                          Len(queueWaiting))
           after == started(queueWaiting, queueRunning, 0, n)
       IN  /\ queueWaiting' = after.waiting
           /\ queueRunning' = after.running
           /\ queueIntervalCount' = after.count
    /\ UNCHANGED <<queueClient, queueConcurrency, queueIntervalCap,
                   queuePaused, queueSettled, queueNextId, queueResumed>>
    /\ UNCHANGED outsideQueue

\* pause(): this.queue.pause(), whatever the state of the queue
QueuePause ==
    /\ queueClient # ""
    /\ queuePaused' = TRUE
    /\ queueResumed' = FALSE
    /\ UNCHANGED <<queueClient, queueConcurrency, queueIntervalCap,
                   queueWaiting, queueRunning, queueSettled,
                   queueIntervalCount, queueNextId>>
    /\ UNCHANGED outsideQueue

\* resume(), whatever the state of the queue: nothing of the queue is
\* touched; queueResumed records that it was called on a paused queue
QueueResume ==
    /\ queueClient # ""
    /\ queuePaused' = resume(queuePaused)
    /\ queueResumed' = (queueResumed \/ queuePaused)
    /\ UNCHANGED <<queueClient, queueConcurrency, queueIntervalCap,
                   queueWaiting, queueRunning, queueSettled,
                   queueIntervalCount, queueNextId>>
    /\ UNCHANGED outsideQueue

\* clear(): this.queue.clear() drops the waiting requests
QueueClear ==
    /\ queueClient # ""
    /\ queueWaiting # <<>>
    /\ queueWaiting' = <<>>
    /\ UNCHANGED <<queueClient, queueConcurrency, queueIntervalCap,
                   queuePaused, queueRunning, queueSettled,
                   queueIntervalCount, queueNextId, queueResumed>>
    /\ UNCHANGED outsideQueue

\* the constructor's cfg: the defaults, or one request at a time, or two
\* requests per interval
QueueConfigs ==
    [concurrency : {Undefined, <<1>>}, intervalCap : {Undefined, <<2>>}]

\* args.priority: not given, or given
PriorityChoices ==
    [priority : {Undefined, <<1>>}]

InitQueue ==
    /\ queueClient \in {"llm", "rag"}
    /\ \E cfg \in QueueConfigs :
           /\ queueConcurrency = concurrencyOption(queueClient, cfg)
           /\ queueIntervalCap = intervalCapOption(queueClient, cfg)
    /\ queuePaused = FALSE
    /\ queueWaiting = <<>>
    /\ queueRunning = {}
    /\ queueSettled = {}
    /\ queueIntervalCount = 0
    /\ queueNextId = 0
    /\ queueResumed = FALSE
    /\ OutsideQueueIdle

NextQueue ==
    \/ \E args \in PriorityChoices : QueueAdd(args)
    \/ \E id \in 1..MaxRequests : QueueSettle(id)
    \/ QueueInterval
    \/ QueuePause
    \/ QueueResume
    \/ QueueClear

\* a started request settles (by its response or by the queue's timeout)
\* and the interval timer fires
SpecQueue ==
    /\ InitQueue
    /\ [][NextQueue]_vars
    /\ WF_vars(\E id \in 1..MaxRequests : QueueSettle(id))
    /\ WF_vars(QueueInterval)

\* the request waits in the queue
IsWaiting(id) ==
    \E k \in DOMAIN queueWaiting : queueWaiting[k].id = id

\* C28: once resume() has been called on a paused queue, every request
\* that waits in the queue is eventually started, without a further call
\* (it stops waiting, unless pause() is called again first).
C28_ResumeRunsRequests ==
    \A id \in 1..MaxRequests :
        (queueResumed /\ IsWaiting(id)) ~> (~IsWaiting(id) \/ ~queueResumed)


----------------------------------------------------------------------------
(* Part 6: the comment pipeline of reviewRepositoryDiff (reviewer.ts,      *)
(* lines 139-264): the pass over the chunks, the fallback to the           *)
(* heuristic smells, the refine pass and the call of verifyComments.       *)
(* What the model answers is the environment: a text that is not JSON, a   *)
(* JSON array of items, an object with a comments array, or another JSON   *)
(* value; so is whether llm.chat and writeFile resolve or reject.          *)

Severities ==
    {"critical", "major", "minor", "nit"}

\* the four severities as JSON writes them
SeverityTexts ==
    {<<<<"c", "r", "i", "t", "i", "c", "a", "l">>, "critical">>,
     <<<<"m", "a", "j", "o", "r">>, "major">>,
     <<<<"m", "i", "n", "o", "r">>, "minor">>,
     <<<<"n", "i", "t">>, "nit">>}

\* A value of JSON.parse: a string (its text: a path by its segments, any
\* other text by its characters), a number (integral or not), null, or an
\* object (members: a function from its keys to values).
JsonString(text) ==
    [type |-> "string", text |-> text, number |-> 0, integral |-> FALSE,
     members |-> <<>>]

JsonNumber(n) ==
    [type |-> "number", text |-> <<>>, number |-> n, integral |-> TRUE,
     members |-> <<>>]

\* a number with a fractional part, n + 1/2
JsonFraction(n) ==
    [type |-> "number", text |-> <<>>, number |-> n, integral |-> FALSE,
     members |-> <<>>]

JsonNull ==
    [type |-> "null", text |-> <<>>, number |-> 0, integral |-> FALSE,
     members |-> <<>>]

JsonObject(members) ==
    [type |-> "object", text |-> <<>>, number |-> 0, integral |-> FALSE,
     members |-> members]

\* z.string() on the member of that key: the key is there and holds a string
hasString(item, key) ==
    /\ key \in DOMAIN item.members
    /\ item.members[key].type = "string"

\* z.number().int().positive() on the member of that key
hasPositiveInt(item, key) ==
    /\ key \in DOMAIN item.members
    /\ item.members[key].type = "number"
    /\ item.members[key].integral
    /\ item.members[key].number > 0

\* z.enum(['critical', 'major', 'minor', 'nit']) on the member of that key
hasSeverity(item, key) ==
    /\ hasString(item, key)
    /\ \E pair \in SeverityTexts : pair[1] = item.members[key].text

\* ReviewCommentSchema.safeParse(item).success: an object whose file, smell,
\* rationale and suggestion are strings, whose line is a positive integer
\* and whose severity is one of the four
schemaAccepts(item) ==
    /\ item.type = "object"
    /\ \A key \in {"file", "smell", "rationale", "suggestion"} :
           hasString(item, key)
    /\ hasPositiveInt(item, "line")
    /\ hasSeverity(item, "severity")

\* ReviewCommentSchema.safeParse(item).data of an accepted item: the six
\* members of the schema; every other key of the item is stripped (a
\* comment without confidence key has confidence undefined)
parsedData(item) ==
    [file |-> item.members.file.text,
     line |-> item.members.line.number,
     severity |-> (CHOOSE pair \in SeverityTexts :
                       pair[1] = item.members.severity.text)[2],
     smell |-> item.members.smell.text,
     rationale |-> item.members.rationale.text,
     suggestion |-> item.members.suggestion.text,
     confidence |-> Undefined]

\* safeParseComments(content): the data of the accepted items of the array
\* (the answer itself, or its comments member), nothing for any other
\* answer
safeParseComments(content) ==
    IF content.kind \in {"array", "object"}
    THEN LET accepted == SelectSeq(content.items, schemaAccepts)
         IN  [k \in DOMAIN accepted |-> parsedData(accepted[k])]
    ELSE <<>>

DefaultSeverity ==
    "minor"

\* 'Consider refactoring as per best practices.'
DefaultSuggestion ==
    <<"C", "o", "n", "s", "i", "d", "e", "r", " ", "r", "e", "f", "a", "c", "t", "o", "r", "i", "n", "g", " ", "a", "s", " ", "p", "e", "r", " ", "b", "e", "s", "t", " ", "p", "r", "a", "c", "t", "i", "c", "e", "s", ".">>

\* smellsToComments(smells): severity ?? 'minor' and suggestion ?? the
\* default text
smellsToComments(smells) ==
    [k \in DOMAIN smells |->
        [file |-> smells[k].file, line |-> smells[k].line,
         severity |-> IF IsDefined(smells[k].severity)
                      THEN smells[k].severity[1] ELSE DefaultSeverity,
         smell |-> smells[k].kind,
         rationale |-> smells[k].message,
         suggestion |-> IF IsDefined(smells[k].suggestion)
                        THEN smells[k].suggestion[1] ELSE DefaultSuggestion,
         confidence |-> Undefined]]

\* verificationFilter(comments, changedFiles)
verificationFilter(cs, changedFiles) ==
    LET Passes(c) == c.line > 0 /\ c.file \in changedFiles
    IN  SelectSeq(cs, Passes)

ReviewMinSuggestionChars ==
    16

\* the options reviewRepositoryDiff gives verifyComments
reviewVerifyOptions(defsByFile) ==
    [repoDir |-> RepoDir,
     definitionsByFile |-> <<defsByFile>>,
     minSuggestionChars |-> <<ReviewMinSuggestionChars>>,
     enableFuzzyMatching |-> FALSE,
     fuzzyMatchOptions |-> Undefined]

\* verification.kept of verifyComments(cs, o), as the comments themselves
RECURSIVE verifyKeptFrom(_, _, _, _)
verifyKeptFrom(cs, k, keptCs, o) ==
    IF k > Len(cs) THEN keptCs
    ELSE LET reasons == reasonsFor(cs[k], keptCs, o, <<>>, <<>>)
         IN  verifyKeptFrom(cs, k + 1,
                            IF Len(reasons) = 0 THEN Append(keptCs, cs[k])
                            ELSE keptCs,
                            o)

verifyKept(cs, o) ==
    verifyKeptFrom(cs, 1, <<>>, o)

\* verifyComments(cs, o) rejects: the symbol check of some comment throws
verifyThrows(cs, o) ==
    \E k \in DOMAIN cs : referencesKnownSymbolsThrows(cs[k], defsByFileOf(o))

\* content when there is no llm: the empty string, which is not JSON
NoContent ==
    [kind |-> "text", items |-> <<>>]

MaxReviewChunks ==
    2

SmellMessage ==
    <<"D", "e", "b", "u", "g", " ", "l", "o", "g", "g", "i", "n", "g", " ", "l", "e", "f", "t", " ", "i", "n", " ", "c", "o", "d", "e", ".">>

SmellSuggestion ==
    <<"R", "e", "m", "o", "v", "e", " ", "c", "o", "n", "s", "o", "l", "e", " ", "l", "o", "g", "s", " ", "o", "r", " ", "g", "u", "a", "r", "d", " ", "u", "n", "d", "e", "r", " ", "d", "e", "b", "u", "g", " ", "f", "l", "a", "g", ".">>

SmellKind ==
    <<"c", "o", "n", "s", "o", "l", "e", "-", "l", "o", "g">>

\* a console-log smell of analyzeCodeSmells on an added line
Smell(file, line) ==
    [file |-> file, line |-> line, kind |-> SmellKind,
     message |-> SmellMessage, severity |-> <<"minor">>,
     suggestion |-> <<SmellSuggestion>>]

\* no smell; one on line 3 of a.ts; one on line 3 and one on an added line
\* numbered 0 (a hunk whose header gives 0 as its target start)
SmellChoices ==
    {<<>>, <<Smell(FileA, 3)>>, <<Smell(FileA, 0), Smell(FileA, 3)>>}

\* the item that JSON.stringify writes for a comment
Item(file, line, rationale, suggestion) ==
    JsonObject([file |-> JsonString(file), line |-> JsonNumber(line),
                severity |-> JsonString(<<"m", "i", "n", "o", "r">>),
                smell |-> JsonString(SmellText),
                rationale |-> JsonString(rationale),
                suggestion |-> JsonString(suggestion)])

\* an item with a severity the schema does not know
ItemBadSeverity ==
    JsonObject([Item(FileA, 4, R1, S1).members EXCEPT
                    !.severity = JsonString(<<"b", "l", "o", "c", "k", "e", "r">>)])

\* an item without its smell
ItemNoSmell ==
    JsonObject([file |-> JsonString(FileA), line |-> JsonNumber(4),
                severity |-> JsonString(<<"m", "i", "n", "o", "r">>),
                rationale |-> JsonString(R1),
                suggestion |-> JsonString(S1)])

\* an item whose suggestion is null and whose line has a fractional part
ItemNullSuggestion ==
    JsonObject([Item(FileA, 4, R1, S1).members EXCEPT
                    !.suggestion = JsonNull, !.line = JsonFraction(4)])

\* an item with two more keys than the schema has
ItemMoreKeys ==
    JsonObject([file |-> JsonString(FileA), line |-> JsonNumber(3),
                severity |-> JsonString(<<"m", "a", "j", "o", "r">>),
                smell |-> JsonString(SmellText),
                rationale |-> JsonString(R1),
                suggestion |-> JsonString(S7),
                confidence |-> JsonNumber(1),
                note |-> JsonString(R4)])

\* what the model can answer: no JSON, a JSON value without comments, and
\* arrays or objects whose items name the changed a.ts, the unchanged b.ts
\* of the repository, a file that does not exist, a file named like a
\* property of Object.prototype, line 0 or a bad severity, lack a member,
\* hold a member of another type or more keys, or are no objects
ReviewContents ==
    { NoContent,
      [kind |-> "other", items |-> <<>>],
      [kind |-> "array", items |-> <<>>],
      [kind |-> "array", items |-> <<Item(FileA, 3, R1, S7)>>],
      [kind |-> "array", items |-> <<Item(FileB, 2, R1, S7)>>],
      [kind |-> "array", items |-> <<Item(FileA, 0, R1, S7),
                                     Item(FileA, 4, R4, S7)>>],
      [kind |-> "array", items |-> <<ItemBadSeverity,
                                     Item(FileMissing, 1, R1, S7)>>],
      [kind |-> "array", items |-> <<Item(FileConstructor, 1, R1, S7)>>],
      [kind |-> "array", items |-> <<ItemNoSmell, JsonNull, ItemMoreKeys,
                                     ItemNullSuggestion,
                                     JsonString(R1)>>],
      [kind |-> "object", items |-> <<Item(FileA, 3, R1, S7),
                                      Item(FileB, 2, R4, S7)>>] }

\* definitionsByFile: a.ts without definitions, or foo known in a.ts
ReviewDefsNone ==
    (FileA :> <<>>)

ReviewDefsFoo ==
    (FileA :> <<[name |-> NameFoo]>>) @@ (FileB :> <<>>)

\* the paths of the diff's files: a.ts alone, or a.ts and a deleted file
ChangedChoices ==
    {{FileA}, {FileA, FileMissing}}

\* lines 143-234: one chunk; the answer's comments pass verificationFilter
\* (for the files of ChangedChoices, none named like a property of
\* Object.prototype, lines 144-219 build the prompt without a throw)
ReviewChunkAnswered ==
    /\ \E content \in (IF reviewLlm THEN ReviewContents ELSE {NoContent}) :
           allComments' = allComments
               \o verificationFilter(safeParseComments(content), reviewChanged)
    /\ reviewChunkIndex' = reviewChunkIndex + 1
    /\ reviewPc' = reviewPc

\* line 223: llm.chat rejects (the request fails, the answer's status is
\* not ok, the queue's timeout); the catch of line 284 returns ok: false
ReviewChatRejects ==
    /\ reviewLlm
    /\ reviewPc' = "failed"

ReviewChunk ==
    /\ reviewPc = "chunks"
    /\ reviewChunkIndex <= Len(reviewChunks)
    /\ \/ ReviewChunkAnswered
       \/ ReviewChatRejects /\ UNCHANGED <<allComments, reviewChunkIndex>>
    /\ UNCHANGED <<reviewChanged, reviewChunks, reviewSmells, reviewLlm,
                   reviewDefs, prelimComments, refined, finalComments,
                   reviewOutputPath>>
    /\ UNCHANGED outsideReview

\* lines 236-250: the preliminary list, and the refine request if there is
\* an llm and something to refine
ReviewPrelim ==
    /\ reviewPc = "chunks"
    /\ reviewChunkIndex > Len(reviewChunks)
    /\ LET prelim == IF Len(allComments) > 0 THEN allComments
                     ELSE verificationFilter(smellsToComments(reviewSmells),
                                             reviewChanged)
       IN  /\ prelimComments' = prelim
           /\ refined' = prelim
           /\ reviewPc' = IF reviewLlm /\ Len(prelim) > 0 THEN "refining"
                          ELSE "verifying"
    /\ UNCHANGED <<reviewChanged, reviewChunks, reviewSmells, reviewLlm,
                   reviewDefs, reviewChunkIndex, allComments, finalComments,
                   reviewOutputPath>>
    /\ UNCHANGED outsideReview

\* lines 251-252: the refine answer; a non-empty result replaces the list
ReviewRefineAnswered ==
    /\ \E content \in ReviewContents :
           LET refinedParsed == safeParseComments(content)
           IN  refined' = IF Len(refinedParsed) > 0 THEN refinedParsed
                          ELSE refined
    /\ reviewPc' = "verifying"

\* lines 245-252: the refine request, which llm.chat answers or rejects
ReviewRefine ==
    /\ reviewPc = "refining"
    /\ \/ ReviewRefineAnswered
       \/ ReviewChatRejects /\ UNCHANGED refined
    /\ UNCHANGED <<reviewChanged, reviewChunks, reviewSmells, reviewLlm,
                   reviewDefs, reviewChunkIndex, allComments, prelimComments,
                   finalComments, reviewOutputPath>>
    /\ UNCHANGED outsideReview

\* lines 255-279: finalComments = (await verifyComments(refined, ...)).kept
\* and the rendering of the output; without an outputPath the call returns
\* ok: true, with one it starts the write; when verifyComments rejects, the
\* catch of line 284 returns ok: false.  While verifyComments waits for its
\* reads no variable of reviewRepositoryDiff changes (its own steps are
\* those of Part 1).
ReviewVerify ==
    /\ reviewPc = "verifying"
    /\ IF verifyThrows(refined, reviewVerifyOptions(reviewDefs))
       THEN /\ finalComments' = finalComments
            /\ reviewPc' = "failed"
       ELSE /\ finalComments' = verifyKept(refined,
                                           reviewVerifyOptions(reviewDefs))
            /\ reviewPc' = IF reviewOutputPath THEN "writing" ELSE "done"
    /\ UNCHANGED <<reviewChanged, reviewChunks, reviewSmells, reviewLlm,
                   reviewDefs, reviewChunkIndex, allComments, prelimComments,
                   refined, reviewOutputPath>>
    /\ UNCHANGED outsideReview

\* lines 280-281: await writeFile(args.outputPath, output, 'utf8') settles:
\* the file is written and the call returns ok: true, or writeFile rejects
\* and the catch of line 284 returns ok: false
ReviewWrite ==
    /\ reviewPc = "writing"
    /\ \E written \in BOOLEAN :
           reviewPc' = IF written THEN "done" ELSE "failed"
    /\ UNCHANGED <<reviewChanged, reviewChunks, reviewSmells, reviewLlm,
                   reviewDefs, reviewChunkIndex, allComments, prelimComments,
                   refined, finalComments, reviewOutputPath>>
    /\ UNCHANGED outsideReview

InitReview ==
    /\ reviewChanged \in ChangedChoices
    /\ reviewChunks \in UNION {[1..n -> reviewChanged] :
                                   n \in 0..MaxReviewChunks}
    /\ reviewSmells \in SmellChoices
    /\ reviewLlm \in BOOLEAN
    /\ reviewDefs \in {ReviewDefsNone, ReviewDefsFoo}
    /\ reviewChunkIndex = 1
    /\ allComments = <<>>
    /\ prelimComments = <<>>
    /\ refined = <<>>
    /\ finalComments = <<>>
    /\ reviewOutputPath \in BOOLEAN
    /\ reviewPc = "chunks"
    /\ OutsideReviewIdle

NextReview ==
    \/ ReviewChunk
    \/ ReviewPrelim
    \/ ReviewRefine
    \/ ReviewVerify
    \/ ReviewWrite

SpecReview ==
    InitReview /\ [][NextReview]_vars

\* the comment names a file of the diff and a positive line
InDiff(c) ==
    c.line > 0 /\ c.file \in reviewChanged

\* C30: on every path of reviewRepositoryDiff the comments handed to
\* verifyComments, and with them the comments of the final output, name a
\* file changed by the diff and a positive line.
C30_OutputInDiff ==
    reviewPc \in {"verifying", "writing", "done"} =>
        /\ \A k \in DOMAIN refined : InDiff(refined[k])
        /\ \A k \in DOMAIN finalComments : InDiff(finalComments[k])

====
